---- MODULE Spec2Model ----
(***************************************************************************)
(* A model of lithium, a composable SQL query-string builder.              *)
(*                                                                         *)
(* SQL text is modelled as a sequence of one-character strings, so that    *)
(* separators, parentheses and whitespace of the rendered text are         *)
(* observable.  Builder methods are operators on statement values; the     *)
(* actions apply them to the value the caller currently holds.             *)
(***************************************************************************)
EXTENDS Integers, Sequences, FiniteSets, TLC

VARIABLES
    stack,      \* Where groups under construction by a caller's chained
                \* expression, outermost first (where_cl.rs)
    sel,        \* the Select statement value the caller holds (select/mod.rs)
    upd,        \* the Update statement value the caller holds (update.rs)
    sub,        \* the Subquery the caller holds, if any (common.rs)
    uni,        \* the Union the caller holds, if any (select/union.rs)
    ins,        \* the Insert statement value the caller holds (insert.rs)
    out,        \* the text the last to_sql call returned, empty before the first
    lock,       \* the For clause the caller is building, if any (select/for_cl.rs)
    bld,        \* the early Builder the caller holds (builder.rs)
    qry         \* the Query the last Builder::build call returned, if any

vars == <<stack, sel, upd, sub, uni, ins, out, lock, bld, qry>>

(***************************************************************************)
(* Bounds of the model.                                                    *)
(***************************************************************************)
\* nodes (groups and raw predicates) in the Where trees under construction
MaxNodes == 5
\* total number of clause items a Select holds in the free builder chain
MaxSize == 3
\* elements per list-valued field when every clause combination is explored
MaxLen == 2
\* top-level conditions per WHERE/HAVING list in the filter workload
MaxConds == 2
\* with_alias calls on one Subquery
MaxAliases == 2
\* Union nodes of one Union value
MaxUnions == 2

(***************************************************************************)
(* Text.                                                                   *)
(***************************************************************************)
SP == <<" ">>
LPAREN == <<"(">>
RPAREN == <<")">>
STAR == <<"*">>
COMMA_SP == <<",", " ">>

\* the string literals the renderers push
kw ==
    [SELECT |-> <<"S","E","L","E","C","T">>,
     DISTINCT |-> <<"D","I","S","T","I","N","C","T">>,
     DISTINCT_ON |-> <<"D","I","S","T","I","N","C","T"," ","O","N">>,
     FROM |-> <<"F","R","O","M">>,
     JOIN |-> <<"J","O","I","N">>,
     ON |-> <<"O","N">>,
     WHERE |-> <<"W","H","E","R","E">>,
     GROUP_BY |-> <<"G","R","O","U","P"," ","B","Y">>,
     HAVING |-> <<"H","A","V","I","N","G">>,
     ORDER_BY |-> <<"O","R","D","E","R"," ","B","Y">>,
     LIMIT |-> <<"L","I","M","I","T">>,
     OFFSET |-> <<"O","F","F","S","E","T">>,
     FOR |-> <<"F","O","R">>,
     OF |-> <<"O","F">>,
     NOWAIT |-> <<"N","O","W","A","I","T">>,
     UPDATE |-> <<"U","P","D","A","T","E">>,
     SHARE |-> <<"S","H","A","R","E">>,
     SET |-> <<"S","E","T">>,
     AND |-> <<"A","N","D">>,
     OR |-> <<"O","R">>,
     INNER |-> <<"I","N","N","E","R">>,
     LEFT |-> <<"L","E","F","T">>,
     RIGHT |-> <<"R","I","G","H","T">>,
     OUTER |-> <<"O","U","T","E","R">>,
     ASC |-> <<"A","S","C">>,
     DESC |-> <<"D","E","S","C">>,
     RETURNING |-> <<" ","R","E","T","U","R","N","I","N","G"," ">>,
     AS |-> <<"A","S">>,
     UNION_ |-> <<"U","N","I","O","N">>,
     ALL |-> <<"A","L","L">>,
     INSERT_INTO |-> <<"I","N","S","E","R","T"," ","I","N","T","O">>,
     DEFAULT_VALUES |-> <<"D","E","F","A","U","L","T"," ","V","A","L","U","E","S">>,
     VALUES |-> <<"V","A","L","U","E","S">>,
     SELECT_SP |-> <<"S","E","L","E","C","T"," ">>,
     FROM_SP |-> <<"F","R","O","M"," ">>,
     SEMICOLON |-> <<";">>]

\* [T]::join(sep) of the standard library: the items separated by sep
RECURSIVE JoinStr(_, _)
JoinStr(items, sep) ==
    IF items = <<>> THEN <<>>
    ELSE IF Len(items) = 1 THEN items[1]
    ELSE items[1] \o sep \o JoinStr(Tail(items), sep)

\* iter().map(f).collect::<Vec<_>>()
MapSeq(f(_), items) == [i \in 1..Len(items) |-> f(items[i])]

(***************************************************************************)
(* WHERE trees (where_cl.rs).                                              *)
(***************************************************************************)
Operators == {"And", "Or"}

OperatorToSql(operator) ==
    IF operator = "And" THEN kw.AND ELSE kw.OR

WhereNew(operator) == [operator |-> operator, clauses |-> <<>>]

with_and == WhereNew("And")

with_or == WhereNew("Or")

\* IntoWhereType for &str
IntoWhereTypeStr(text) == [tag |-> "Simple", text |-> text]

\* IntoWhereType for Where
IntoWhereTypeWhere(w) == [tag |-> "Extended", where |-> w]

\* a clause() that puts the new child first
clausePrepend(w, c) == [w EXCEPT !.clauses = <<c>> \o @]

\* Where::clause, with the argument already converted by into_where_type
clause(w, c) == [w EXCEPT !.clauses = Append(@, c)]

RECURSIVE WhereToSql(_)
RECURSIVE WhereTypeToSql(_)

\* a child renderer that drops the parentheses of a nested group
WhereTypeToSqlFlat(c) ==
    IF c.tag = "Simple" THEN c.text
    ELSE SubSeq(WhereToSql(c.where), 2, Len(WhereToSql(c.where)) - 1)

\* a child renderer that wraps a raw string in parentheses
WhereTypeToSqlWrap(c) ==
    IF c.tag = "Simple" THEN LPAREN \o c.text \o RPAREN ELSE WhereToSql(c.where)

WhereTypeToSql(c) ==
    IF c.tag = "Simple" THEN c.text ELSE WhereToSql(c.where)

\* a group renderer that emits nothing for a group without children
WhereToSqlSkipEmpty(w) ==
    IF w.clauses = <<>> THEN <<>>
    ELSE LPAREN \o JoinStr(MapSeq(WhereTypeToSql, w.clauses),
                           SP \o OperatorToSql(w.operator) \o SP) \o RPAREN

WhereToSql(w) ==
    LET operator == SP \o OperatorToSql(w.operator) \o SP
        rv0 == <<>>
        rv1 == rv0 \o LPAREN
        rv2 == rv1 \o JoinStr(MapSeq(WhereTypeToSql, w.clauses), operator)
        rv3 == rv2 \o RPAREN
    IN rv3

(***************************************************************************)
(* Arguments that are either one string or a fixed-size array of strings   *)
(* (common.rs, Pusheable).                                                 *)
(***************************************************************************)
PushStr(item) == [tag |-> "Str", items |-> <<item>>]

PushArray(items) == [tag |-> "Array", items |-> items]

\* Pusheable::push_to: a string is pushed, an array extends the destination
push_to(input, destination) ==
    IF input.tag = "Str" THEN Append(destination, input.items[1])
    ELSE destination \o input.items

\* AsStr::as_str for &str
as_str(text) == text

(***************************************************************************)
(* Leaf clause types.                                                      *)
(***************************************************************************)
SelectTypeToSql(select_type) ==
    IF select_type.tag = "All" THEN STAR
    ELSE JoinStr(select_type.columns, COMMA_SP)

JoinTypes == {"Inner", "Left", "Right", "Outer"}

JoinTypeToSql(join_type) ==
    CASE join_type = "Inner" -> kw.INNER
      [] join_type = "Left" -> kw.LEFT
      [] join_type = "Right" -> kw.RIGHT
      [] join_type = "Outer" -> kw.OUTER

JoinToSql(j) ==
    LET rv0 == <<>>
        rv1 == rv0 \o JoinTypeToSql(j.join_type)
        rv2 == rv1 \o SP
        rv3 == rv2 \o kw.JOIN
        rv4 == rv3 \o SP
        rv5 == rv4 \o j.target
        rv6 == rv5 \o SP
        rv7 == rv6 \o kw.ON
        rv8 == rv7 \o SP
        rv9 == rv8 \o j.clause
    IN rv9

Orderings == {"Ascending", "Descending"}

OrderingToSql(ordering) ==
    IF ordering = "Ascending" THEN kw.ASC ELSE kw.DESC

OrderByToSql(o) ==
    LET rv0 == <<>>
        rv1 == rv0 \o o.order_by
        rv2 == rv1 \o SP
        rv3 == rv2 \o OrderingToSql(o.ordering)
    IN rv3

ForModes == {"Update", "Share"}

ForModeToSql(mode) ==
    IF mode = "Update" THEN kw.UPDATE ELSE kw.SHARE

ForNew(mode) == [mode |-> mode, tables |-> <<>>, nowait |-> FALSE]

For_update == ForNew("Update")

For_share == ForNew("Share")

table(f, tables) == [f EXCEPT !.tables = push_to(tables, @)]

\* a nowait() that flips the flag
nowaitToggle(f) == [f EXCEPT !.nowait = ~@]

nowait(f) == [f EXCEPT !.nowait = TRUE]

ForToSql(f) ==
    LET rv0 == <<>>
        rv1 == rv0 \o kw.FOR
        rv2 == rv1 \o SP
        rv3 == rv2 \o ForModeToSql(f.mode)
        rv4 == IF f.tables # <<>>
               THEN rv3 \o SP \o kw.OF \o SP \o JoinStr(f.tables, COMMA_SP)
               ELSE rv3
        rv5 == IF f.nowait THEN rv4 \o SP \o kw.NOWAIT ELSE rv4
    IN rv5

\* the variants of the enum-valued fields
SelectAll == [tag |-> "All", columns |-> <<>>]
SelectSpecific(columns) == [tag |-> "Specific", columns |-> columns]
DistinctEmpty == [tag |-> "Empty", columns |-> <<>>]
DistinctSimple == [tag |-> "Simple", columns |-> <<>>]
DistinctExtended(columns) == [tag |-> "Extended", columns |-> columns]
LimitEmpty == [tag |-> "Empty", value |-> <<>>]
LimitSpecified(value) == [tag |-> "Specified", value |-> value]
OffsetEmpty == [tag |-> "Empty", value |-> <<>>]
OffsetSpecified(value) == [tag |-> "Specified", value |-> value]
ForEmpty == [tag |-> "Empty"]
ForSpecified(for_cl) == [tag |-> "Specified", for_clause |-> for_cl]

(***************************************************************************)
(* Select (select/mod.rs): the builder methods.                            *)
(***************************************************************************)
Fields == {"select_type", "distinct", "from", "joins", "group_by", "order_by",
           "where_cl", "having", "limit", "offset", "for_cl"}

\* a constructor that leaves DISTINCT set
SelectFromDistinct(from_table) ==
    [select_type |-> SelectAll,
     distinct |-> DistinctSimple,
     from |-> as_str(from_table),
     joins |-> <<>>,
     group_by |-> <<>>,
     order_by |-> <<>>,
     where_cl |-> <<>>,
     having |-> <<>>,
     limit |-> LimitEmpty,
     offset |-> OffsetEmpty,
     for_cl |-> ForEmpty]

SelectFrom(from_table) ==
    [select_type |-> SelectAll,
     distinct |-> DistinctEmpty,
     from |-> as_str(from_table),
     joins |-> <<>>,
     group_by |-> <<>>,
     order_by |-> <<>>,
     where_cl |-> <<>>,
     having |-> <<>>,
     limit |-> LimitEmpty,
     offset |-> OffsetEmpty,
     for_cl |-> ForEmpty]

\* a select_all() that acts only when no column was added
select_allIfEmpty(self) ==
    IF self.select_type.columns = <<>> THEN [self EXCEPT !.select_type = SelectAll]
    ELSE self

select_all(self) == [self EXCEPT !.select_type = SelectAll]

\* a columns() that replaces the list, as the early Builder::select did
columnsReplace(self, input_columns) ==
    [self EXCEPT !.select_type = SelectSpecific(push_to(input_columns, <<>>))]

columns(self, input_columns) ==
    IF self.select_type.tag = "All"
    THEN [self EXCEPT !.select_type = SelectSpecific(push_to(input_columns, <<>>))]
    ELSE [self EXCEPT !.select_type.columns = push_to(input_columns, @)]

\* a distinct() that leaves DISTINCT ON columns in place
distinctKeepExtended(self) ==
    IF self.distinct.tag = "Extended" THEN self
    ELSE [self EXCEPT !.distinct = DistinctSimple]

distinct(self) == [self EXCEPT !.distinct = DistinctSimple]

\* a distinct_on() that does nothing when it is given no column
distinct_onSkipEmpty(self, input_columns) ==
    IF input_columns.items = <<>> THEN self
    ELSE IF self.distinct.tag \in {"Empty", "Simple"}
    THEN [self EXCEPT !.distinct = DistinctExtended(push_to(input_columns, <<>>))]
    ELSE [self EXCEPT !.distinct.columns = push_to(input_columns, @)]

distinct_on(self, input_columns) ==
    IF self.distinct.tag \in {"Empty", "Simple"}
    THEN [self EXCEPT !.distinct = DistinctExtended(push_to(input_columns, <<>>))]
    ELSE [self EXCEPT !.distinct.columns = push_to(input_columns, @)]

remove_distinct(self) == [self EXCEPT !.distinct = DistinctEmpty]

push_join(self, join_type, target, cl) ==
    [self EXCEPT !.joins = Append(@, [join_type |-> join_type,
                                      target |-> as_str(target),
                                      clause |-> as_str(cl)])]

join(self, target, cl) == push_join(self, "Inner", target, cl)

left_join(self, target, cl) == push_join(self, "Left", target, cl)

right_join(self, target, cl) == push_join(self, "Right", target, cl)

outer_join(self, target, cl) == push_join(self, "Outer", target, cl)

group_by(self, cols) == [self EXCEPT !.group_by = push_to(cols, @)]

order_by(self, field, ordering) ==
    [self EXCEPT !.order_by = Append(@, [ordering |-> ordering, order_by |-> field])]

filter(self, c) == [self EXCEPT !.where_cl = Append(@, c)]

having(self, c) == [self EXCEPT !.having = Append(@, c)]

\* a limit() that keeps a value that is already set
limitKeepFirst(self, value) ==
    IF self.limit.tag = "Empty" THEN [self EXCEPT !.limit = LimitSpecified(value)]
    ELSE self

limit(self, value) == [self EXCEPT !.limit = LimitSpecified(value)]

\* a remove_limit() that empties the neighbouring field
remove_limitWrongField(self) == [self EXCEPT !.offset = OffsetEmpty]

remove_limit(self) == [self EXCEPT !.limit = LimitEmpty]

offset(self, value) == [self EXCEPT !.offset = OffsetSpecified(value)]

\* a remove_offset() pasted from remove_limit with the field left unchanged
remove_offsetWrongField(self) == [self EXCEPT !.limit = LimitEmpty]

remove_offset(self) == [self EXCEPT !.offset = OffsetEmpty]

for_(self, for_cl) == [self EXCEPT !.for_cl = ForSpecified(for_cl)]

remove_for(self) == [self EXCEPT !.for_cl = ForEmpty]

(***************************************************************************)
(* Select::to_sql.  Each operator below is what one block of the function  *)
(* pushes onto rv; SelectToSql pushes them in the order of the code.       *)
(***************************************************************************)
\* a WHERE list joined by OR
WhereListToSqlOr(conds) ==
    JoinStr(MapSeq(WhereTypeToSql, conds), SP \o kw.OR \o SP)

\* where_cl.iter().map(|x| x.to_sql()).collect::<Vec<_>>().join(" AND ")
WhereListToSql(conds) ==
    JoinStr(MapSeq(WhereTypeToSql, conds), SP \o kw.AND \o SP)

PushDistinct(self) ==
    CASE self.distinct.tag = "Empty" -> <<>>
      [] self.distinct.tag = "Simple" -> SP \o kw.DISTINCT
      [] self.distinct.tag = "Extended" ->
             SP \o kw.DISTINCT_ON \o SP \o LPAREN
                \o JoinStr(self.distinct.columns, COMMA_SP) \o RPAREN

PushSelectFrom(self) ==
    SP \o SelectTypeToSql(self.select_type) \o SP \o kw.FROM \o SP \o self.from

PushJoins(self) ==
    LET rv[i \in 0..Len(self.joins)] ==
            IF i = 0 THEN <<>> ELSE rv[i - 1] \o SP \o JoinToSql(self.joins[i])
    IN rv[Len(self.joins)]

PushWhere(self) ==
    IF self.where_cl # <<>>
    THEN SP \o kw.WHERE \o SP \o WhereListToSql(self.where_cl)
    ELSE <<>>

PushGroupBy(self) ==
    IF self.group_by # <<>>
    THEN SP \o kw.GROUP_BY \o SP \o JoinStr(self.group_by, COMMA_SP)
    ELSE <<>>

\* a renderer that emits the HAVING keyword whether or not the list is empty
PushHavingAlways(self) ==
    SP \o kw.HAVING \o SP \o WhereListToSql(self.having)

PushHaving(self) ==
    IF self.having # <<>>
    THEN SP \o kw.HAVING \o SP \o WhereListToSql(self.having)
    ELSE <<>>

PushOrderBy(self) ==
    IF self.order_by # <<>>
    THEN SP \o kw.ORDER_BY \o SP \o JoinStr(MapSeq(OrderByToSql, self.order_by), COMMA_SP)
    ELSE <<>>

PushLimit(self) ==
    IF self.limit.tag = "Specified"
    THEN SP \o kw.LIMIT \o SP \o self.limit.value
    ELSE <<>>

PushOffset(self) ==
    IF self.offset.tag = "Specified"
    THEN SP \o kw.OFFSET \o SP \o self.offset.value
    ELSE <<>>

PushFor(self) ==
    IF self.for_cl.tag = "Specified"
    THEN SP \o ForToSql(self.for_cl.for_clause)
    ELSE <<>>

\* a renderer that emits GROUP BY before WHERE and OFFSET before LIMIT
SelectToSqlSwapped(self) ==
    kw.SELECT \o PushDistinct(self) \o PushSelectFrom(self) \o PushJoins(self)
        \o PushGroupBy(self) \o PushWhere(self) \o PushHaving(self)
        \o PushOrderBy(self) \o PushOffset(self) \o PushLimit(self) \o PushFor(self)

SelectToSql(self) ==
    LET rv0 == kw.SELECT
        rv1 == rv0 \o PushDistinct(self)
        rv2 == rv1 \o PushSelectFrom(self)
        rv3 == rv2 \o PushJoins(self)
        rv4 == rv3 \o PushWhere(self)
        rv5 == rv4 \o PushGroupBy(self)
        rv6 == rv5 \o PushHaving(self)
        rv7 == rv6 \o PushOrderBy(self)
        rv8 == rv7 \o PushLimit(self)
        rv9 == rv8 \o PushOffset(self)
        rv10 == rv9 \o PushFor(self)
    IN rv10

(***************************************************************************)
(* Update (update.rs).                                                     *)
(***************************************************************************)
FromEmpty == [tag |-> "Empty", table |-> <<>>]
FromSpecified(t) == [tag |-> "Specified", table |-> t]
ReturningEmpty == [tag |-> "Empty", values |-> <<>>]
ReturningAll == [tag |-> "All", values |-> <<>>]
ReturningSpecified(values) == [tag |-> "Specified", values |-> values]

UpdateNew(t) ==
    [table |-> t,
     expressions |-> <<>>,
     from |-> FromEmpty,
     where_cl |-> <<>>,
     returning |-> ReturningEmpty]

UpdateSet(self, expressions) ==
    [self EXCEPT !.expressions = push_to(expressions, @)]

\* a from() that keeps a target already set
UpdateFromKeepFirst(self, t) ==
    IF self.from.tag = "Specified" THEN self
    ELSE [self EXCEPT !.from = FromSpecified(as_str(t))]

UpdateFrom(self, t) == [self EXCEPT !.from = FromSpecified(as_str(t))]

remove_from(self) == [self EXCEPT !.from = FromEmpty]

UpdateFilter(self, expr) == [self EXCEPT !.where_cl = Append(@, expr)]

returning_all(self) == [self EXCEPT !.returning = ReturningAll]

returning(self, input_expressions) ==
    IF self.returning.tag \in {"Empty", "All"}
    THEN [self EXCEPT !.returning =
                          ReturningSpecified(push_to(input_expressions, <<>>))]
    ELSE [self EXCEPT !.returning.values = push_to(input_expressions, @)]

empty_returning(self) == [self EXCEPT !.returning = ReturningEmpty]

\* a renderer that treats an empty expression list as an absent SET clause
UpdateToSqlOptionalSet(self) ==
    LET rv0 == IF self.expressions # <<>>
               THEN kw.UPDATE \o SP \o self.table \o SP \o kw.SET \o SP
                        \o JoinStr(self.expressions, COMMA_SP)
               ELSE kw.UPDATE \o SP \o self.table
        rv1 == IF self.from.tag = "Specified"
               THEN rv0 \o SP \o kw.FROM \o SP \o self.from.table
               ELSE rv0
        rv2 == IF self.where_cl # <<>>
               THEN rv1 \o SP \o kw.WHERE \o SP \o WhereListToSql(self.where_cl)
               ELSE rv1
    IN CASE self.returning.tag = "Empty" -> rv2
         [] self.returning.tag = "All" -> rv2 \o kw.RETURNING \o STAR
         [] self.returning.tag = "Specified" ->
                rv2 \o kw.RETURNING \o JoinStr(self.returning.values, COMMA_SP)

UpdateToSql(self) ==
    LET rv0 == kw.UPDATE \o SP \o self.table \o SP \o kw.SET \o SP
                   \o JoinStr(self.expressions, COMMA_SP)
        rv1 == IF self.from.tag = "Specified"
               THEN rv0 \o SP \o kw.FROM \o SP \o self.from.table
               ELSE rv0
        rv2 == IF self.where_cl # <<>>
               THEN rv1 \o SP \o kw.WHERE \o SP \o WhereListToSql(self.where_cl)
               ELSE rv1
        rv3 == CASE self.returning.tag = "Empty" -> rv2
                 [] self.returning.tag = "All" -> rv2 \o kw.RETURNING \o STAR
                 [] self.returning.tag = "Specified" ->
                        rv2 \o kw.RETURNING \o JoinStr(self.returning.values, COMMA_SP)
    IN rv3

(***************************************************************************)
(* The early Builder (builder.rs): setters assign, join pushes.            *)
(***************************************************************************)
WhereTypeEmpty == [tag |-> "Empty"]

BuilderFrom(t) ==
    [select |-> SelectAll,
     distinct |-> DistinctEmpty,
     from |-> t,
     joins |-> <<>>,
     group_by |-> <<>>,
     order_by |-> <<>>,
     where_cl |-> WhereTypeEmpty,
     having |-> WhereTypeEmpty,
     limit |-> LimitEmpty,
     offset |-> OffsetEmpty,
     for_cl |-> ForEmpty]

\* Builder::build: a Query of references to the builder's fields
BuilderBuild(self) ==
    [select |-> self.select,
     distinct |-> self.distinct,
     from |-> self.from,
     joins |-> self.joins,
     group_by |-> self.group_by,
     order_by |-> self.order_by,
     where_cl |-> self.where_cl,
     having |-> self.having,
     limit |-> self.limit,
     offset |-> self.offset,
     for_cl |-> self.for_cl]

BuilderSelectAll(self) == [self EXCEPT !.select = SelectAll]

\* a select() that appends, as Select::columns does
BuilderSelectAppend(self, fields) ==
    [self EXCEPT !.select = SelectSpecific(@.columns \o fields)]

BuilderSelect(self, fields) == [self EXCEPT !.select = SelectSpecific(fields)]

BuilderClearDistinct(self) == [self EXCEPT !.distinct = DistinctEmpty]

BuilderDistinct(self) == [self EXCEPT !.distinct = DistinctSimple]

BuilderDistinctOn(self, fields) == [self EXCEPT !.distinct = DistinctExtended(fields)]

BuilderJoin(self, target, cl) ==
    [self EXCEPT !.joins = Append(@, [join_type |-> "Inner",
                                      target |-> target,
                                      clause |-> cl])]

(***************************************************************************)
(* Subquery (common.rs) and Select::as_subquery.                           *)
(***************************************************************************)
None == [tag |-> "None"]
Some(value) == [tag |-> "Some", value |-> value]

\* Subquery::new: format!("({})", query)
SubqueryNew(query) == [query |-> LPAREN \o query \o RPAREN, alias |-> None]

\* an alias that replaces the text instead of being appended to it
with_aliasRewrite(self, alias) ==
    [self EXCEPT !.alias = Some(alias), !.query = alias \o SP \o kw.AS \o SP \o @]

\* Subquery::with_alias: push_str(&format!(" AS {}", alias))
with_alias(self, alias) ==
    [self EXCEPT !.alias = Some(alias), !.query = @ \o SP \o kw.AS \o SP \o alias]

as_subquery(self) == SubqueryNew(SelectToSql(self))

\* AsStr::as_str for &Subquery
as_strSubquery(subquery) == subquery.query

\* a Subquery argument that pushes nothing
PushSubqueryEmpty(subquery) == [tag |-> "Array", items |-> <<>>]

\* Pusheable for &Subquery: destination.push(&self.query)
PushSubquery(subquery) == [tag |-> "Str", items |-> <<subquery.query>>]

(***************************************************************************)
(* Union (select/union.rs).  A side is a Select or a Union, held by value  *)
(* or by reference.                                                        *)
(***************************************************************************)
UnionModes == {"Simple", "All"}

Holds == {"value", "reference"}

\* a Select as a side of a Union
SideSelect(hold, query) == [tag |-> "Select", hold |-> hold, query |-> query]

\* Union::new; the new Union as a value that can itself be a side
UnionNew(mode, left, right) ==
    [tag |-> "Union", hold |-> "value", mode |-> mode, left |-> left, right |-> right]

\* &x for a side x
Borrow(side) == [side EXCEPT !.hold = "reference"]

RECURSIVE UnionToSql(_)
\* a renderer that wraps a side which is itself a Union in parentheses
UnionToSqlParens(self) ==
    LET side(x) == IF x.tag = "Select" THEN SelectToSql(x.query)
                   ELSE LPAREN \o UnionToSql(x) \o RPAREN
    IN side(self.left) \o SP \o kw.UNION_ \o SP
           \o (IF self.mode = "All" THEN kw.ALL \o SP ELSE <<>>)
           \o side(self.right)

\* a renderer that marks a Union on its right side with parentheses
UnionToSqlRightParens(self) ==
    LET left == IF self.left.tag = "Select" THEN SelectToSql(self.left.query)
                ELSE UnionToSql(self.left)
        right == IF self.right.tag = "Select" THEN SelectToSql(self.right.query)
                 ELSE LPAREN \o UnionToSql(self.right) \o RPAREN
    IN left \o SP \o kw.UNION_ \o SP
           \o (IF self.mode = "All" THEN kw.ALL \o SP ELSE <<>>)
           \o right

\* a renderer that never emits ALL
UnionToSqlNoAll(self) ==
    LET side(x) == IF x.tag = "Select" THEN SelectToSql(x.query) ELSE UnionToSql(x)
    IN side(self.left) \o SP \o kw.UNION_ \o SP \o side(self.right)

\* impl ToSQL for Union; a side renders by its own to_sql, and the impls for
\* &Select and &Union hand over to the value behind the reference
UnionToSql(self) ==
    LET to_sql(x) == IF x.tag = "Select" THEN SelectToSql(x.query) ELSE UnionToSql(x)
        rv0 == <<>>
        rv1 == rv0 \o to_sql(self.left)
        rv2 == rv1 \o SP
        rv3 == rv2 \o kw.UNION_
        rv4 == rv3 \o SP
        rv5 == IF self.mode = "All" THEN rv4 \o kw.ALL \o SP ELSE rv4
        rv6 == rv5 \o to_sql(self.right)
    IN rv6

(***************************************************************************)
(* Insert (insert.rs).                                                     *)
(***************************************************************************)
ValuesDefault == [tag |-> "Default"]
ValuesSpecified(rows) == [tag |-> "Specified", rows |-> rows]
ValuesSelect(query) == [tag |-> "Select", query |-> query]

\* format!("({})", x.join(", "))
RowToSql(x) == LPAREN \o JoinStr(x, COMMA_SP) \o RPAREN

ValuesToSql(values) ==
    CASE values.tag = "Default" -> kw.DEFAULT_VALUES
      [] values.tag = "Specified" ->
             kw.VALUES \o SP \o JoinStr(MapSeq(RowToSql, values.rows), COMMA_SP)
      [] values.tag = "Select" -> SelectToSql(values.query)

InsertInto(t) ==
    [table |-> t,
     columns |-> <<>>,
     values |-> ValuesDefault,
     returning |-> ReturningEmpty]

InsertColumns(self, cols) == [self EXCEPT !.columns = push_to(cols, @)]

\* a values() that leaves a stored query in place
InsertValuesKeepQuery(self, input_values) ==
    CASE self.values.tag = "Default" ->
             [self EXCEPT !.values = ValuesSpecified(<<input_values>>)]
      [] self.values.tag = "Select" -> self
      [] self.values.tag = "Specified" ->
             [self EXCEPT !.values.rows = Append(@, input_values)]

InsertValues(self, input_values) ==
    IF self.values.tag \in {"Default", "Select"}
    THEN [self EXCEPT !.values = ValuesSpecified(<<input_values>>)]
    ELSE [self EXCEPT !.values.rows = Append(@, input_values)]

InsertQuery(self, query) == [self EXCEPT !.values = ValuesSelect(query)]

InsertReturningAll(self) == [self EXCEPT !.returning = ReturningAll]

\* a returning() that replaces the columns listed so far
InsertReturningReplace(self, input_columns) ==
    [self EXCEPT !.returning = ReturningSpecified(push_to(input_columns, <<>>))]

InsertReturning(self, input_columns) ==
    IF self.returning.tag \in {"Empty", "All"}
    THEN [self EXCEPT !.returning =
                          ReturningSpecified(push_to(input_columns, <<>>))]
    ELSE [self EXCEPT !.returning.values = push_to(input_columns, @)]

remove_returning(self) == [self EXCEPT !.returning = ReturningEmpty]

\* a renderer that writes the column parentheses of an empty column list too
InsertToSqlAlwaysColumns(self) ==
    kw.INSERT_INTO \o SP \o self.table
        \o SP \o LPAREN \o JoinStr(self.columns, COMMA_SP) \o RPAREN
        \o SP \o ValuesToSql(self.values)
        \o (CASE self.returning.tag = "Empty" -> <<>>
              [] self.returning.tag = "All" -> kw.RETURNING \o STAR
              [] self.returning.tag = "Specified" ->
                     kw.RETURNING \o JoinStr(self.returning.values, COMMA_SP))

InsertToSql(self) ==
    LET rv0 == kw.INSERT_INTO \o SP \o self.table
        rv1 == IF self.columns # <<>>
               THEN rv0 \o SP \o LPAREN \o JoinStr(self.columns, COMMA_SP) \o RPAREN
               ELSE rv0
        rv2 == rv1 \o SP \o ValuesToSql(self.values)
        rv3 == CASE self.returning.tag = "Empty" -> rv2
                 [] self.returning.tag = "All" -> rv2 \o kw.RETURNING \o STAR
                 [] self.returning.tag = "Specified" ->
                        rv2 \o kw.RETURNING \o JoinStr(self.returning.values, COMMA_SP)
    IN rv3

(***************************************************************************)
(* The earlier Query types: lib.rs (select list and table only) and        *)
(* query.rs (the clauses of Select, the select list in field `select`).    *)
(***************************************************************************)
LibQuery(select, from) == [select |-> select, from |-> from]

\* lib.rs Query::to_sql; SelectType::to_sql there is connect(", ")
LibQueryToSql(self) ==
    LET rv0 == <<>>
        rv1 == rv0 \o kw.SELECT_SP
        rv2 == rv1 \o SelectTypeToSql(self.select)
        rv3 == rv2 \o SP
        rv4 == rv3 \o kw.FROM_SP
        rv5 == rv4 \o self.from
        rv6 == rv5 \o kw.SEMICOLON
    IN rv6

QueryNew(from_table) ==
    [select |-> SelectAll,
     distinct |-> DistinctEmpty,
     from |-> from_table,
     joins |-> <<>>,
     group_by |-> <<>>,
     order_by |-> <<>>,
     where_cl |-> <<>>,
     having |-> <<>>,
     limit |-> LimitEmpty,
     offset |-> OffsetEmpty,
     for_cl |-> ForEmpty]

\* query.rs Query::to_sql pushes, line for line, what Select::to_sql pushes,
\* reading the select list from the field `select`
QueryToSql(self) ==
    SelectToSql([f \in Fields |-> IF f = "select_type" THEN self.select ELSE self[f]])

(***************************************************************************)
(* The strings and values the modelled callers pass in.                    *)
(***************************************************************************)
tA == <<"a">>
tB == <<"b">>
tT == <<"t">>
tU == <<"u">>
tOn == <<"t", ".", "a", " ", "=", " ", "u", ".", "a">>
tP == <<"a", " ", ">", " ", "2">>
tQ == <<"b", " ", "<", " ", "3">>
tR == <<"c", " ", ">", " ", "4">>
t1 == <<"1">>
t5 == <<"5">>

\* column arguments: one string, a zero-length array, an array of two
PushArgs == {PushStr(tA), PushArray(<<>>), PushArray(<<tB, tA>>)}

\* conditions: raw predicates and a group
Conds == {IntoWhereTypeStr(tP), IntoWhereTypeStr(tR),
          IntoWhereTypeWhere(clause(clause(with_or, IntoWhereTypeStr(tP)),
                                    IntoWhereTypeStr(tQ)))}

Values == {t1, t5}

Fors == {For_update,
         table(For_update, PushStr(tA)),
         nowait(table(For_share, PushArray(<<tA, tB>>)))}

(***************************************************************************)
(* Workload 1: a caller chains arbitrary Select builder calls.  The chain  *)
(* is cut off by the number of clause items the statement holds.           *)
(***************************************************************************)
Size(s) ==
    Len(s.select_type.columns)
    + (IF s.distinct.tag = "Simple" THEN 1 ELSE Len(s.distinct.columns))
    + Len(s.joins) + Len(s.group_by) + Len(s.order_by)
    + Len(s.where_cl) + Len(s.having)
    + (IF s.limit.tag = "Specified" THEN 1 ELSE 0)
    + (IF s.offset.tag = "Specified" THEN 1 ELSE 0)
    + (IF s.for_cl.tag = "Specified" THEN 1 ELSE 0)

Small(s) == Size(s) <= MaxSize

DoSelectAll ==
    LET s == select_all(sel)
    IN Small(s) /\ sel' = s /\ UNCHANGED <<stack, upd, sub, uni, ins, out, lock, bld, qry>>

DoColumns ==
    \E x \in PushArgs :
        LET s == columns(sel, x)
        IN Small(s) /\ sel' = s /\ UNCHANGED <<stack, upd, sub, uni, ins, out, lock, bld, qry>>

DoDistinct ==
    LET s == distinct(sel)
    IN Small(s) /\ sel' = s /\ UNCHANGED <<stack, upd, sub, uni, ins, out, lock, bld, qry>>

DoDistinctOn ==
    \E x \in PushArgs :
        LET s == distinct_on(sel, x)
        IN Small(s) /\ sel' = s /\ UNCHANGED <<stack, upd, sub, uni, ins, out, lock, bld, qry>>

DoRemoveDistinct ==
    LET s == remove_distinct(sel)
    IN Small(s) /\ sel' = s /\ UNCHANGED <<stack, upd, sub, uni, ins, out, lock, bld, qry>>

DoJoin ==
    LET s == join(sel, tU, tOn)
    IN Small(s) /\ sel' = s /\ UNCHANGED <<stack, upd, sub, uni, ins, out, lock, bld, qry>>

DoLeftJoin ==
    LET s == left_join(sel, tU, tOn)
    IN Small(s) /\ sel' = s /\ UNCHANGED <<stack, upd, sub, uni, ins, out, lock, bld, qry>>

DoRightJoin ==
    LET s == right_join(sel, tU, tOn)
    IN Small(s) /\ sel' = s /\ UNCHANGED <<stack, upd, sub, uni, ins, out, lock, bld, qry>>

DoOuterJoin ==
    LET s == outer_join(sel, tU, tOn)
    IN Small(s) /\ sel' = s /\ UNCHANGED <<stack, upd, sub, uni, ins, out, lock, bld, qry>>

DoGroupBy ==
    \E x \in PushArgs :
        LET s == group_by(sel, x)
        IN Small(s) /\ sel' = s /\ UNCHANGED <<stack, upd, sub, uni, ins, out, lock, bld, qry>>

DoOrderBy ==
    \E o \in Orderings :
        LET s == order_by(sel, tA, o)
        IN Small(s) /\ sel' = s /\ UNCHANGED <<stack, upd, sub, uni, ins, out, lock, bld, qry>>

DoFilter ==
    \E c \in Conds :
        LET s == filter(sel, c)
        IN Small(s) /\ sel' = s /\ UNCHANGED <<stack, upd, sub, uni, ins, out, lock, bld, qry>>

DoHaving ==
    \E c \in Conds :
        LET s == having(sel, c)
        IN Small(s) /\ sel' = s /\ UNCHANGED <<stack, upd, sub, uni, ins, out, lock, bld, qry>>

DoLimit ==
    \E v \in Values :
        LET s == limit(sel, v)
        IN Small(s) /\ sel' = s /\ UNCHANGED <<stack, upd, sub, uni, ins, out, lock, bld, qry>>

DoRemoveLimit ==
    LET s == remove_limit(sel)
    IN Small(s) /\ sel' = s /\ UNCHANGED <<stack, upd, sub, uni, ins, out, lock, bld, qry>>

DoOffset ==
    \E v \in Values :
        LET s == offset(sel, v)
        IN Small(s) /\ sel' = s /\ UNCHANGED <<stack, upd, sub, uni, ins, out, lock, bld, qry>>

DoRemoveOffset ==
    LET s == remove_offset(sel)
    IN Small(s) /\ sel' = s /\ UNCHANGED <<stack, upd, sub, uni, ins, out, lock, bld, qry>>

DoFor ==
    \E f \in Fors :
        LET s == for_(sel, f)
        IN Small(s) /\ sel' = s /\ UNCHANGED <<stack, upd, sub, uni, ins, out, lock, bld, qry>>

DoRemoveFor ==
    LET s == remove_for(sel)
    IN Small(s) /\ sel' = s /\ UNCHANGED <<stack, upd, sub, uni, ins, out, lock, bld, qry>>

Init ==
    /\ stack = <<>>
    /\ sel = SelectFrom(tT)
    /\ upd = UpdateNew(tT)
    /\ sub = None
    /\ uni = None
    /\ ins = InsertInto(tT)
    /\ out = <<>>
    /\ lock = None
    /\ bld = BuilderFrom(tT)
    /\ qry = None

Next ==
    \/ DoSelectAll \/ DoColumns
    \/ DoDistinct \/ DoDistinctOn \/ DoRemoveDistinct
    \/ DoJoin \/ DoLeftJoin \/ DoRightJoin \/ DoOuterJoin
    \/ DoGroupBy \/ DoOrderBy \/ DoFilter \/ DoHaving
    \/ DoLimit \/ DoRemoveLimit \/ DoOffset \/ DoRemoveOffset
    \/ DoFor \/ DoRemoveFor

Spec == Init /\ [][Next]_vars

(***************************************************************************)
(* Workload 2: a caller evaluates a chained Where expression such as       *)
(*   Where::with_or().clause(Where::with_and().clause("a")).clause("b")    *)
(* The groups whose construction has started and is not yet passed to the  *)
(* enclosing clause() call are on the stack, outermost first.              *)
(***************************************************************************)
Preds == {tA, tB}

RECURSIVE Nodes(_)
Nodes(w) ==
    LET n[i \in 0..Len(w.clauses)] ==
            IF i = 0 THEN 1
            ELSE n[i - 1] + (IF w.clauses[i].tag = "Simple" THEN 1
                             ELSE Nodes(w.clauses[i].where))
    IN n[Len(w.clauses)]

StackNodes ==
    LET n[i \in 0..Len(stack)] ==
            IF i = 0 THEN 0 ELSE n[i - 1] + Nodes(stack[i])
    IN n[Len(stack)]

Top == stack[Len(stack)]

WNew ==
    /\ StackNodes < MaxNodes
    /\ \E operator \in Operators : stack' = Append(stack, WhereNew(operator))
    /\ UNCHANGED <<sel, upd, sub, uni, ins, out, lock, bld, qry>>

WWithAnd ==
    /\ StackNodes < MaxNodes
    /\ stack' = Append(stack, with_and)
    /\ UNCHANGED <<sel, upd, sub, uni, ins, out, lock, bld, qry>>

WWithOr ==
    /\ StackNodes < MaxNodes
    /\ stack' = Append(stack, with_or)
    /\ UNCHANGED <<sel, upd, sub, uni, ins, out, lock, bld, qry>>

\* top.clause("...")
WClauseStr ==
    /\ stack # <<>>
    /\ StackNodes < MaxNodes
    /\ \E t \in Preds :
           stack' = [stack EXCEPT ![Len(stack)] = clause(@, IntoWhereTypeStr(t))]
    /\ UNCHANGED <<sel, upd, sub, uni, ins, out, lock, bld, qry>>

\* enclosing.clause(top): the finished inner group moves into the enclosing one
WClauseWhere ==
    /\ Len(stack) >= 2
    /\ stack' = [SubSeq(stack, 1, Len(stack) - 1)
                     EXCEPT ![Len(stack) - 1] = clause(@, IntoWhereTypeWhere(Top))]
    /\ UNCHANGED <<sel, upd, sub, uni, ins, out, lock, bld, qry>>

NextWhere == WNew \/ WWithAnd \/ WWithOr \/ WClauseStr \/ WClauseWhere

SpecWhere == Init /\ [][NextWhere]_vars

(***************************************************************************)
(* Properties of Where rendering (workload 2).                             *)
(***************************************************************************)
\* every group of a tree, the root included
RECURSIVE GroupsOf(_)
GroupsOf(w) ==
    {w} \cup UNION {GroupsOf(w.clauses[i].where) :
                       i \in {j \in 1..Len(w.clauses) : w.clauses[j].tag = "Extended"}}

AllGroups == UNION {GroupsOf(stack[i]) : i \in 1..Len(stack)}

\* the separator the claim names for an operator
OpSep(operator) ==
    IF operator = "And" THEN <<" ", "A", "N", "D", " ">> ELSE <<" ", "O", "R", " ">>

\* the text a child contributes: a raw string verbatim, a group its rendering
ChildText(c) == IF c.tag = "Simple" THEN c.text ELSE WhereToSql(c.where)

\* c1 sep c2 sep ... cn, accumulated from the left
JoinedLeft(cs, sep) ==
    LET acc[i \in 1..Len(cs)] ==
            IF i = 1 THEN ChildText(cs[1]) ELSE acc[i - 1] \o sep \o ChildText(cs[i])
    IN acc[Len(cs)]

Last(q) == q[Len(q)]

Front(q) == SubSeq(q, 1, Len(q) - 1)

C1_Rendered ==
    \A g \in AllGroups :
        Len(g.clauses) >= 1 =>
            WhereToSql(g) = <<"(">> \o JoinedLeft(g.clauses, OpSep(g.operator)) \o <<")">>

\* what a clause() call does to the text of the group it is called on
C1_Appended(before, after, child) ==
    /\ after.operator = before.operator
    /\ Len(after.clauses) = Len(before.clauses) + 1
    /\ \A i \in 1..Len(before.clauses) : after.clauses[i] = before.clauses[i]
    /\ Last(after.clauses) = child
    /\ WhereToSql(after) =
           IF before.clauses = <<>>
           THEN <<"(">> \o ChildText(child) \o <<")">>
           ELSE Front(WhereToSql(before)) \o OpSep(before.operator)
                    \o ChildText(child) \o <<")">>

C1_Step ==
    /\ (Len(stack') = Len(stack) /\ stack # <<>>) =>
           \E t \in Preds :
               C1_Appended(Top, stack'[Len(stack')], [tag |-> "Simple", text |-> t])
    /\ (Len(stack') = Len(stack) - 1) =>
           C1_Appended(stack[Len(stack) - 1], stack'[Len(stack')],
                       [tag |-> "Extended", where |-> Top])

\* C1: a Where group with n >= 1 children renders "(" + its children's renderings
\* in call order, separated by " AND " or " OR " + ")"; each clause() call adds
\* its child's text at the end and a raw string child is rendered verbatim.
C1_GroupRendering == []C1_Rendered /\ [][C1_Step]_vars

\* a group of both kinds of children, built by three clause() calls
C1_Witness ==
    \E g \in AllGroups :
        /\ g.operator = "Or"
        /\ Len(g.clauses) = 3
        /\ g.clauses[1].tag = "Simple" /\ g.clauses[1].text = tB
        /\ g.clauses[2].tag = "Extended"
        /\ g.clauses[3].tag = "Simple" /\ g.clauses[3].text = tA

\* the position of child i in the text of group g
ChildStart(g, i) ==
    LET at[k \in 1..i] ==
            IF k = 1 THEN 2
            ELSE at[k - 1] + Len(ChildText(g.clauses[k - 1])) + Len(OpSep(g.operator))
    IN at[i]

ExampleTree ==
    clause(clause(with_or,
                  IntoWhereTypeWhere(clause(clause(with_and, IntoWhereTypeStr(<<"a">>)),
                                            IntoWhereTypeStr(<<"b">>)))),
           IntoWhereTypeWhere(clause(clause(with_and, IntoWhereTypeStr(<<"c">>)),
                                     IntoWhereTypeStr(<<"d">>))))

ExampleText ==
    <<"(", "(", "a", " ", "A", "N", "D", " ", "b", ")", " ", "O", "R", " ",
      "(", "c", " ", "A", "N", "D", " ", "d", ")", ")">>

\* C2: nested groups are never flattened: in the text of every group, at every
\* depth, each child that is a group appears as its own complete parenthesised
\* rendering, also when it has the operator of its parent.
C2_NoFlattening ==
    /\ WhereToSql(ExampleTree) = ExampleText
    /\ \A g \in AllGroups :
           \A i \in 1..Len(g.clauses) :
               g.clauses[i].tag = "Extended" =>
                   LET r == WhereToSql(g.clauses[i].where)
                       from == ChildStart(g, i)
                   IN /\ r[1] = "(" /\ r[Len(r)] = ")"
                      /\ from + Len(r) - 1 < Len(WhereToSql(g))
                      /\ SubSeq(WhereToSql(g), from, from + Len(r) - 1) = r

\* a group holding a nested group of its own operator, two levels deep
C2_Witness ==
    \E g \in AllGroups :
        \E i \in 1..Len(g.clauses) :
            /\ g.clauses[i].tag = "Extended"
            /\ g.clauses[i].where.operator = g.operator
            /\ Len(g.clauses[i].where.clauses) = 2
            /\ Len(g.clauses) = 2

\* C3: a group without children renders "()" for both operators.
C3_EmptyGroup ==
    /\ \A operator \in Operators : WhereToSql(WhereNew(operator)) = <<"(", ")">>
    /\ WhereToSql(with_and) = <<"(", ")">>
    /\ WhereToSql(with_or) = <<"(", ")">>
    /\ \A g \in AllGroups : g.clauses = <<>> => WhereToSql(g) = <<"(", ")">>

\* empty groups of both operators, one of them nested in a parent
C3_Witness ==
    /\ \E g \in AllGroups : g.clauses = <<>> /\ g.operator = "Or"
    /\ \E g \in AllGroups :
           /\ g.clauses # <<>>
           /\ g.clauses[1].tag = "Extended"
           /\ g.clauses[1].where = with_and

(***************************************************************************)
(* Builder calls as data: every call the chain workload can make, the      *)
(* method it invokes and the field that method assigns.                    *)
(***************************************************************************)
Ops ==
    {[m |-> "select_all"], [m |-> "distinct"], [m |-> "remove_distinct"],
     [m |-> "remove_limit"], [m |-> "remove_offset"], [m |-> "remove_for"]}
    \cup {[m |-> "columns", input |-> x] : x \in PushArgs}
    \cup {[m |-> "distinct_on", input |-> x] : x \in PushArgs}
    \cup {[m |-> "group_by", input |-> x] : x \in PushArgs}
    \cup {[m |-> j, target |-> tU] : j \in {"join", "left_join", "right_join", "outer_join"}}
    \cup {[m |-> "order_by", field |-> tA, ordering |-> o] : o \in Orderings}
    \cup {[m |-> "filter", cond |-> c] : c \in Conds}
    \cup {[m |-> "having", cond |-> c] : c \in Conds}
    \cup {[m |-> "limit", value |-> v] : v \in Values}
    \cup {[m |-> "offset", value |-> v] : v \in Values}
    \cup {[m |-> "for_", for_cl |-> f] : f \in Fors}

Apply(s, o) ==
    CASE o.m = "select_all" -> select_all(s)
      [] o.m = "columns" -> columns(s, o.input)
      [] o.m = "distinct" -> distinct(s)
      [] o.m = "distinct_on" -> distinct_on(s, o.input)
      [] o.m = "remove_distinct" -> remove_distinct(s)
      [] o.m = "join" -> join(s, o.target, tOn)
      [] o.m = "left_join" -> left_join(s, o.target, tOn)
      [] o.m = "right_join" -> right_join(s, o.target, tOn)
      [] o.m = "outer_join" -> outer_join(s, o.target, tOn)
      [] o.m = "group_by" -> group_by(s, o.input)
      [] o.m = "order_by" -> order_by(s, o.field, o.ordering)
      [] o.m = "filter" -> filter(s, o.cond)
      [] o.m = "having" -> having(s, o.cond)
      [] o.m = "limit" -> limit(s, o.value)
      [] o.m = "remove_limit" -> remove_limit(s)
      [] o.m = "offset" -> offset(s, o.value)
      [] o.m = "remove_offset" -> remove_offset(s)
      [] o.m = "for_" -> for_(s, o.for_cl)
      [] o.m = "remove_for" -> remove_for(s)

Target(o) ==
    CASE o.m \in {"select_all", "columns"} -> "select_type"
      [] o.m \in {"distinct", "distinct_on", "remove_distinct"} -> "distinct"
      [] o.m \in {"join", "left_join", "right_join", "outer_join"} -> "joins"
      [] o.m = "group_by" -> "group_by"
      [] o.m = "order_by" -> "order_by"
      [] o.m = "filter" -> "where_cl"
      [] o.m = "having" -> "having"
      [] o.m \in {"limit", "remove_limit"} -> "limit"
      [] o.m \in {"offset", "remove_offset"} -> "offset"
      [] o.m \in {"for_", "remove_for"} -> "for_cl"

(***************************************************************************)
(* Properties of the Select builder (workload 1).                          *)
(***************************************************************************)
\* the fields in which two statements differ
Differing(s1, s2) == {f \in Fields : s1[f] # s2[f]}

IsPrefix(p, q) == Len(p) <= Len(q) /\ SubSeq(q, 1, Len(p)) = p

\* the strings an argument stands for: the one string, or the array's elements
Items(x) == x.items

\* appending calls on every list-valued field, applied to the current statement
C8_Concat ==
    /\ \A x \in PushArgs, y \in PushArgs :
           /\ columns(sel, x).select_type
                  = [tag |-> "Specific", columns |-> sel.select_type.columns \o Items(x)]
           /\ columns(columns(sel, x), y).select_type.columns
                  = sel.select_type.columns \o Items(x) \o Items(y)
           /\ distinct_on(sel, x).distinct
                  = [tag |-> "Extended", columns |-> sel.distinct.columns \o Items(x)]
           /\ distinct_on(distinct_on(sel, x), y).distinct.columns
                  = sel.distinct.columns \o Items(x) \o Items(y)
           /\ group_by(group_by(sel, x), y).group_by
                  = sel.group_by \o Items(x) \o Items(y)
    /\ left_join(join(sel, tU, tOn), tT, tOn).joins
           = sel.joins \o <<[join_type |-> "Inner", target |-> tU, clause |-> tOn],
                            [join_type |-> "Left", target |-> tT, clause |-> tOn]>>
    /\ outer_join(right_join(sel, tU, tOn), tT, tOn).joins
           = sel.joins \o <<[join_type |-> "Right", target |-> tU, clause |-> tOn],
                            [join_type |-> "Outer", target |-> tT, clause |-> tOn]>>
    /\ order_by(order_by(sel, tB, "Descending"), tA, "Ascending").order_by
           = sel.order_by \o <<[ordering |-> "Descending", order_by |-> tB],
                               [ordering |-> "Ascending", order_by |-> tA]>>
    /\ \A c \in Conds, d \in Conds :
           /\ filter(filter(sel, c), d).where_cl = sel.where_cl \o <<c, d>>
           /\ having(having(sel, c), d).having = sel.having \o <<c, d>>

\* what a step of the chain does to the lists: nothing stored is lost or moved
C8_PrefixStep ==
    /\ IsPrefix(sel.joins, sel'.joins)
    /\ IsPrefix(sel.group_by, sel'.group_by)
    /\ IsPrefix(sel.order_by, sel'.order_by)
    /\ IsPrefix(sel.where_cl, sel'.where_cl)
    /\ IsPrefix(sel.having, sel'.having)
    /\ sel'.select_type.tag = "Specific" =>
           IsPrefix(sel.select_type.columns, sel'.select_type.columns)
    /\ sel'.distinct.tag = "Extended" =>
           IsPrefix(sel.distinct.columns, sel'.distinct.columns)

\* C8: repeated calls on a list-valued field append and never replace: the field
\* holds the concatenation of the arguments in call order, and what was stored
\* before a call is a prefix of what is stored after it.
C8_Append == []C8_Concat /\ [][C8_PrefixStep]_vars

\* columns("a") followed by columns(&["b", "a"])
C8_Witness == sel.select_type = [tag |-> "Specific", columns |-> <<tA, tB, tA>>]

\* where pat occurs in text
Occurrences(text, pat) ==
    {i \in 1..(Len(text) - Len(pat) + 1) :
        text[i] = pat[1] /\ SubSeq(text, i, i + Len(pat) - 1) = pat}

EndsWith(text, pat) ==
    Len(pat) <= Len(text) /\ SubSeq(text, Len(text) - Len(pat) + 1, Len(text)) = pat

\* C9: limit, offset and for_ are last-write-wins: a second call leaves the
\* statement a single call would have left, and the text has the keyword once,
\* followed by the last value.
C9_LastWriteWins ==
    /\ \A a \in Values, b \in Values :
           /\ limit(limit(sel, a), b) = limit(sel, b)
           /\ offset(offset(sel, a), b) = offset(sel, b)
    /\ \A f \in Fors, g \in Fors : for_(for_(sel, f), g) = for_(sel, g)
    /\ LET text == SelectToSql(for_(for_(remove_offset(limit(limit(sel, t1), t5)),
                                         For_share), For_update))
       IN /\ Cardinality(Occurrences(text, <<"L", "I", "M", "I", "T">>)) = 1
          /\ Cardinality(Occurrences(text, <<"F", "O", "R">>)) = 1
          /\ EndsWith(text, <<" ", "L", "I", "M", "I", "T", " ", "5", " ",
                              "F", "O", "R", " ", "U", "P", "D", "A", "T", "E">>)
    /\ LET text == SelectToSql(remove_for(offset(offset(sel, t5), t1)))
       IN /\ Cardinality(Occurrences(text, <<"O", "F", "F", "S", "E", "T">>)) = 1
          /\ EndsWith(text, <<" ", "O", "F", "F", "S", "E", "T", " ", "1">>)

\* a statement on which limit, offset and for_ have each been called
C9_Witness ==
    /\ sel.limit = [tag |-> "Specified", value |-> t1]
    /\ sel.offset = [tag |-> "Specified", value |-> t5]
    /\ sel.for_cl.tag = "Specified"

\* C6: the text of a statement has no leading space, no trailing space and no
\* two consecutive spaces, whatever clauses are set, zero-length array
\* arguments included.
C6_SingleSpaces ==
    LET text == SelectToSql(sel)
    IN /\ text[1] # " "
       /\ text[Len(text)] # " "
       /\ Occurrences(text, <<" ", " ">>) = {}

(***************************************************************************)
(* Workload 3: a caller fills the clauses of one statement in any order.   *)
(* The i-th call on a field has a fixed argument, so that two call         *)
(* sequences which reach the same counts are permutations of each other.   *)
(* columns, joins, filter and order_by are called up to MaxLen times; the  *)
(* other fields are set once.                                              *)
(***************************************************************************)
When(b, S) == IF b THEN S ELSE {}

NthCol(i) == IF i % 2 = 1 THEN tA ELSE tB

NthCond(i) ==
    CASE i % 3 = 1 -> IntoWhereTypeWhere(clause(clause(with_or, IntoWhereTypeStr(tP)),
                                                IntoWhereTypeStr(tQ)))
      [] i % 3 = 2 -> IntoWhereTypeStr(tR)
      [] i % 3 = 0 -> IntoWhereTypeStr(tP)

NthJoin(i) ==
    CASE i % 4 = 1 -> "join"
      [] i % 4 = 2 -> "left_join"
      [] i % 4 = 3 -> "right_join"
      [] i % 4 = 0 -> "outer_join"

NthOrdering(i) == IF i % 2 = 1 THEN "Descending" ELSE "Ascending"

\* the calls the caller can make next on statement s
ClauseCalls(s) ==
    LET nc == Len(s.select_type.columns)
        nj == Len(s.joins)
    IN When(nc < MaxLen, {[m |-> "columns", input |-> PushStr(NthCol(nc + 1))]})
       \cup When(s.distinct.tag = "Empty", {[m |-> "distinct"]})
       \cup When(s.distinct.tag = "Empty",
                 {[m |-> "distinct_on", input |-> PushArray(<<tA, tB>>)]})
       \cup When(nj = 0, {[m |-> NthJoin(i), target |-> tU] : i \in 1..4})
       \cup When(nj > 0 /\ nj < MaxLen /\ s.joins[1].join_type = "Inner",
                 {[m |-> NthJoin(nj + 1), target |-> tT]})
       \cup When(Len(s.where_cl) < MaxLen,
                 {[m |-> "filter", cond |-> NthCond(Len(s.where_cl) + 1)]})
       \cup When(s.group_by = <<>>, {[m |-> "group_by", input |-> PushArray(<<tB, tA>>)]})
       \cup When(s.having = <<>>, {[m |-> "having", cond |-> NthCond(2)]})
       \cup When(Len(s.order_by) < MaxLen,
                 {[m |-> "order_by", field |-> NthCol(Len(s.order_by) + 1),
                   ordering |-> NthOrdering(Len(s.order_by) + 1)]})
       \cup When(s.limit.tag = "Empty", {[m |-> "limit", value |-> t5]})
       \cup When(s.offset.tag = "Empty", {[m |-> "offset", value |-> t1]})
       \cup When(s.for_cl.tag = "Empty",
                 {[m |-> "for_", for_cl |-> nowait(table(For_share, PushArray(<<tA, tB>>)))]})

CColumns ==
    \E o \in ClauseCalls(sel) :
        o.m = "columns" /\ sel' = columns(sel, o.input) /\ UNCHANGED <<stack, upd, sub, uni, ins, out, lock, bld, qry>>

CDistinct ==
    \E o \in ClauseCalls(sel) :
        o.m = "distinct" /\ sel' = distinct(sel) /\ UNCHANGED <<stack, upd, sub, uni, ins, out, lock, bld, qry>>

CDistinctOn ==
    \E o \in ClauseCalls(sel) :
        o.m = "distinct_on" /\ sel' = distinct_on(sel, o.input)
            /\ UNCHANGED <<stack, upd, sub, uni, ins, out, lock, bld, qry>>

CJoin ==
    \E o \in ClauseCalls(sel) :
        o.m = "join" /\ sel' = join(sel, o.target, tOn) /\ UNCHANGED <<stack, upd, sub, uni, ins, out, lock, bld, qry>>

CLeftJoin ==
    \E o \in ClauseCalls(sel) :
        o.m = "left_join" /\ sel' = left_join(sel, o.target, tOn)
            /\ UNCHANGED <<stack, upd, sub, uni, ins, out, lock, bld, qry>>

CRightJoin ==
    \E o \in ClauseCalls(sel) :
        o.m = "right_join" /\ sel' = right_join(sel, o.target, tOn)
            /\ UNCHANGED <<stack, upd, sub, uni, ins, out, lock, bld, qry>>

COuterJoin ==
    \E o \in ClauseCalls(sel) :
        o.m = "outer_join" /\ sel' = outer_join(sel, o.target, tOn)
            /\ UNCHANGED <<stack, upd, sub, uni, ins, out, lock, bld, qry>>

CFilter ==
    \E o \in ClauseCalls(sel) :
        o.m = "filter" /\ sel' = filter(sel, o.cond) /\ UNCHANGED <<stack, upd, sub, uni, ins, out, lock, bld, qry>>

CGroupBy ==
    \E o \in ClauseCalls(sel) :
        o.m = "group_by" /\ sel' = group_by(sel, o.input) /\ UNCHANGED <<stack, upd, sub, uni, ins, out, lock, bld, qry>>

CHaving ==
    \E o \in ClauseCalls(sel) :
        o.m = "having" /\ sel' = having(sel, o.cond) /\ UNCHANGED <<stack, upd, sub, uni, ins, out, lock, bld, qry>>

COrderBy ==
    \E o \in ClauseCalls(sel) :
        o.m = "order_by" /\ sel' = order_by(sel, o.field, o.ordering)
            /\ UNCHANGED <<stack, upd, sub, uni, ins, out, lock, bld, qry>>

CLimit ==
    \E o \in ClauseCalls(sel) :
        o.m = "limit" /\ sel' = limit(sel, o.value) /\ UNCHANGED <<stack, upd, sub, uni, ins, out, lock, bld, qry>>

COffset ==
    \E o \in ClauseCalls(sel) :
        o.m = "offset" /\ sel' = offset(sel, o.value) /\ UNCHANGED <<stack, upd, sub, uni, ins, out, lock, bld, qry>>

CFor ==
    \E o \in ClauseCalls(sel) :
        o.m = "for_" /\ sel' = for_(sel, o.for_cl) /\ UNCHANGED <<stack, upd, sub, uni, ins, out, lock, bld, qry>>

NextClauses ==
    \/ CColumns \/ CDistinct \/ CDistinctOn
    \/ CJoin \/ CLeftJoin \/ CRightJoin \/ COuterJoin
    \/ CFilter \/ CGroupBy \/ CHaving \/ COrderBy
    \/ CLimit \/ COffset \/ CFor

SpecClauses == Init /\ [][NextClauses]_vars

(***************************************************************************)
(* Properties of Select::to_sql (workload 3).                              *)
(***************************************************************************)
\* t1 sep t2 sep ... tn for a sequence of texts, accumulated from the left
RefJoined(texts, sep) ==
    LET acc[i \in 0..Len(texts)] ==
            IF i = 0 THEN <<>>
            ELSE IF i = 1 THEN texts[1] ELSE acc[i - 1] \o sep \o texts[i]
    IN acc[Len(texts)]

RefKind(join_type) ==
    CASE join_type = "Inner" -> <<"I", "N", "N", "E", "R">>
      [] join_type = "Left" -> <<"L", "E", "F", "T">>
      [] join_type = "Right" -> <<"R", "I", "G", "H", "T">>
      [] join_type = "Outer" -> <<"O", "U", "T", "E", "R">>

RefJoin(j) ==
    <<" ">> \o RefKind(j.join_type) \o <<" ", "J", "O", "I", "N", " ">> \o j.target
        \o <<" ", "O", "N", " ">> \o j.clause

RefTerm(o) ==
    o.order_by \o (IF o.ordering = "Ascending" THEN <<" ", "A", "S", "C">>
                   ELSE <<" ", "D", "E", "S", "C">>)

\* the reference concatenation, clause by clause
RefSql(s) ==
    <<"S", "E", "L", "E", "C", "T">>
    \o (CASE s.distinct.tag = "Empty" -> <<>>
          [] s.distinct.tag = "Simple" -> <<" ", "D", "I", "S", "T", "I", "N", "C", "T">>
          [] s.distinct.tag = "Extended" ->
                 <<" ", "D", "I", "S", "T", "I", "N", "C", "T", " ", "O", "N", " ", "(">>
                     \o RefJoined(s.distinct.columns, <<",", " ">>) \o <<")">>)
    \o <<" ">>
    \o (IF s.select_type.tag = "All" THEN <<"*">>
        ELSE RefJoined(s.select_type.columns, <<",", " ">>))
    \o <<" ", "F", "R", "O", "M", " ">> \o s.from
    \o RefJoined([i \in 1..Len(s.joins) |-> RefJoin(s.joins[i])], <<>>)
    \o (IF s.where_cl = <<>> THEN <<>>
        ELSE <<" ", "W", "H", "E", "R", "E", " ">>
                 \o JoinedLeft(s.where_cl, <<" ", "A", "N", "D", " ">>))
    \o (IF s.group_by = <<>> THEN <<>>
        ELSE <<" ", "G", "R", "O", "U", "P", " ", "B", "Y", " ">>
                 \o RefJoined(s.group_by, <<",", " ">>))
    \o (IF s.having = <<>> THEN <<>>
        ELSE <<" ", "H", "A", "V", "I", "N", "G", " ">>
                 \o JoinedLeft(s.having, <<" ", "A", "N", "D", " ">>))
    \o (IF s.order_by = <<>> THEN <<>>
        ELSE <<" ", "O", "R", "D", "E", "R", " ", "B", "Y", " ">>
                 \o RefJoined([i \in 1..Len(s.order_by) |-> RefTerm(s.order_by[i])],
                              <<",", " ">>))
    \o (IF s.limit.tag = "Specified"
        THEN <<" ", "L", "I", "M", "I", "T", " ">> \o s.limit.value ELSE <<>>)
    \o (IF s.offset.tag = "Specified"
        THEN <<" ", "O", "F", "F", "S", "E", "T", " ">> \o s.offset.value ELSE <<>>)
    \o (IF s.for_cl.tag = "Specified"
        THEN <<" ">> \o ForToSql(s.for_cl.for_clause) ELSE <<>>)

\* C4: Select::to_sql is the fixed-order concatenation of the clauses, each
\* emitted only when populated: for every combination of populated and empty
\* clauses the text equals the reference concatenation.
C4_FixedOrder == SelectToSql(sel) = RefSql(sel)

\* some clauses populated, their neighbours empty
C4_Witness ==
    /\ sel.distinct.tag = "Extended"
    /\ sel.select_type.tag = "Specific"
    /\ Len(sel.joins) = MaxLen
    /\ sel.where_cl = <<>>
    /\ sel.group_by # <<>>
    /\ sel.having # <<>>
    /\ sel.order_by = <<>>
    /\ sel.limit.tag = "Empty"
    /\ sel.offset.tag = "Specified"
    /\ sel.for_cl.tag = "Specified"

\* the clause keywords, in the order the statement is to show them
ClauseKeywords ==
    <<(<<"S", "E", "L", "E", "C", "T">>), (<<"F", "R", "O", "M">>),
      (<<"J", "O", "I", "N">>), (<<"W", "H", "E", "R", "E">>),
      (<<"G", "R", "O", "U", "P", " ", "B", "Y">>), (<<"H", "A", "V", "I", "N", "G">>),
      (<<"O", "R", "D", "E", "R", " ", "B", "Y">>), (<<"L", "I", "M", "I", "T">>),
      (<<"O", "F", "F", "S", "E", "T">>), (<<"F", "O", "R">>)>>

\* where the words of a text begin
WordStarts(text) == {1} \cup {i + 1 : i \in {j \in 1..(Len(text) - 1) : text[j] = " "}}

StartsAt(text, i, pat) ==
    /\ i + Len(pat) - 1 <= Len(text)
    /\ text[i] = pat[1]
    /\ SubSeq(text, i, i + Len(pat) - 1) = pat

\* how often the statement is to show each keyword
KeywordCount(s) ==
    <<1, 1, Len(s.joins),
      IF s.where_cl # <<>> THEN 1 ELSE 0,
      IF s.group_by # <<>> THEN 1 ELSE 0,
      IF s.having # <<>> THEN 1 ELSE 0,
      IF s.order_by # <<>> THEN 1 ELSE 0,
      IF s.limit.tag = "Specified" THEN 1 ELSE 0,
      IF s.offset.tag = "Specified" THEN 1 ELSE 0,
      IF s.for_cl.tag = "Specified" THEN 1 ELSE 0>>

C5_KeywordOrder ==
    LET text == SelectToSql(sel)
        count == KeywordCount(sel)
        \* <<position, keyword>> for every keyword that begins a word of the text
        hits == {<<i, k>> : <<i, k>> \in
                    {h \in WordStarts(text) \X (1..Len(ClauseKeywords)) :
                        StartsAt(text, h[1], ClauseKeywords[h[2]])}}
    IN /\ \A k \in 1..Len(ClauseKeywords) :
              Cardinality({h \in hits : h[2] = k}) = count[k]
       /\ \A g \in hits, h \in hits : g[2] < h[2] => g[1] < h[1]

\* the calls that put a field back to its empty state
Resets ==
    {[m |-> "select_all"], [m |-> "remove_distinct"], [m |-> "remove_limit"],
     [m |-> "remove_offset"], [m |-> "remove_for"]}

\* two calls on different fields can be made in either order
C5_Commute ==
    \A o1 \in ClauseCalls(sel), o2 \in ClauseCalls(sel) \cup Resets :
        Target(o1) # Target(o2) =>
            Apply(Apply(sel, o1), o2) = Apply(Apply(sel, o2), o1)

\* C5: the order of builder calls on different fields does not matter: swapping
\* two adjacent calls that target different fields gives the same statement,
\* hence the same text, and in the text the clause keywords appear in the order
\* SELECT, FROM, JOIN*, WHERE, GROUP BY, HAVING, ORDER BY, LIMIT, OFFSET, FOR.
C5_CallOrderFree == C5_Commute /\ C5_KeywordOrder

\* every clause populated
C5_Witness ==
    /\ Len(sel.joins) = MaxLen
    /\ Len(sel.where_cl) = MaxLen
    /\ sel.group_by # <<>>
    /\ sel.having # <<>>
    /\ Len(sel.order_by) = MaxLen
    /\ sel.limit.tag = "Specified"
    /\ sel.offset.tag = "Specified"
    /\ sel.for_cl.tag = "Specified"

(***************************************************************************)
(* Workload 4: a caller adds conditions to the WHERE and HAVING lists of a *)
(* SELECT and to the WHERE list of an UPDATE.                              *)
(***************************************************************************)
tSet == <<"a", " ", "=", " ", "1">>

FFilter ==
    \E c \in Conds :
        /\ Len(sel.where_cl) < MaxConds
        /\ sel' = filter(sel, c)
        /\ UNCHANGED <<stack, upd, sub, uni, ins, out, lock, bld, qry>>

FHaving ==
    \E c \in Conds :
        /\ Len(sel.having) < MaxConds
        /\ sel' = having(sel, c)
        /\ UNCHANGED <<stack, upd, sub, uni, ins, out, lock, bld, qry>>

USet ==
    /\ upd.expressions = <<>>
    /\ upd' = UpdateSet(upd, PushStr(tSet))
    /\ UNCHANGED <<stack, sel, sub, uni, ins, out, lock, bld, qry>>

UFilter ==
    \E c \in Conds :
        /\ Len(upd.where_cl) < MaxConds
        /\ upd' = UpdateFilter(upd, c)
        /\ UNCHANGED <<stack, sel, sub, uni, ins, out, lock, bld, qry>>

NextFilter == FFilter \/ FHaving \/ USet \/ UFilter

SpecFilter == Init /\ [][NextFilter]_vars

(***************************************************************************)
(* Properties of the condition lists (workload 4).                         *)
(***************************************************************************)
\* keyword and conditions of a list, nothing for an empty list
ListText(keyword, conds) ==
    IF conds = <<>> THEN <<>>
    ELSE keyword \o JoinedLeft(conds, <<" ", "A", "N", "D", " ">>)

\* C10: filter and having append to a list of top-level conditions, which is
\* rendered as " WHERE " (" HAVING ") followed by the conditions in call order
\* joined by " AND ", a raw string verbatim and a group in its own parentheses,
\* with no parentheses added; Update::filter does the same for UPDATE.
C10_TopLevelList ==
    /\ SelectToSql(sel)
           = <<"S", "E", "L", "E", "C", "T", " ", "*", " ", "F", "R", "O", "M", " ", "t">>
                 \o ListText(<<" ", "W", "H", "E", "R", "E", " ">>, sel.where_cl)
                 \o ListText(<<" ", "H", "A", "V", "I", "N", "G", " ">>, sel.having)
    /\ UpdateToSql(upd)
           = <<"U", "P", "D", "A", "T", "E", " ", "t", " ", "S", "E", "T", " ">>
                 \o RefJoined(upd.expressions, <<",", " ">>)
                 \o ListText(<<" ", "W", "H", "E", "R", "E", " ">>, upd.where_cl)
    /\ \A c \in Conds :
           /\ filter(sel, c).where_cl = Append(sel.where_cl, c)
           /\ having(sel, c).having = Append(sel.having, c)
           /\ UpdateFilter(upd, c).where_cl = Append(upd.where_cl, c)
    /\ SelectToSql(filter(filter(SelectFrom(tT), NthCond(1)), NthCond(2)))
           = <<"S", "E", "L", "E", "C", "T", " ", "*", " ", "F", "R", "O", "M", " ", "t",
               " ", "W", "H", "E", "R", "E", " ", "(", "a", " ", ">", " ", "2", " ",
               "O", "R", " ", "b", " ", "<", " ", "3", ")", " ", "A", "N", "D", " ",
               "c", " ", ">", " ", "4">>

\* the group and a raw string in WHERE of both statements, HAVING set as well
C10_Witness ==
    /\ sel.where_cl = <<NthCond(1), NthCond(2)>>
    /\ sel.having = <<NthCond(2), NthCond(1)>>
    /\ upd.where_cl = <<NthCond(1), NthCond(2)>>
    /\ upd.expressions # <<>>

(***************************************************************************)
(* Workload 5: a caller starts statements, turns one into a Subquery,      *)
(* gives it aliases and uses it as a from target, a join target, a column  *)
(* and the FROM of an UPDATE.                                              *)
(***************************************************************************)
Tables == {tT, tU}

AliasCount(subquery) ==
    Cardinality(Occurrences(subquery.query, <<" ", "A", "S", " ">>))

\* Select::from(t)
SFrom ==
    \E t \in Tables :
        /\ sel' = SelectFrom(t)
        /\ UNCHANGED <<stack, upd, sub, uni, ins, out, lock, bld, qry>>

\* sel.as_subquery()
SAsSubquery ==
    /\ sub = None
    /\ sub' = Some(as_subquery(sel))
    /\ UNCHANGED <<stack, sel, upd, uni, ins, out, lock, bld, qry>>

\* sub.with_alias(a): the first alias is "a", the next "b", and so on in turn
SWithAlias ==
    /\ sub # None
    /\ AliasCount(sub.value) < MaxAliases
    /\ sub' = Some(with_alias(sub.value, NthCol(AliasCount(sub.value) + 1)))
    /\ UNCHANGED <<stack, sel, upd, uni, ins, out, lock, bld, qry>>

\* Select::from(&sub)
SFromSubquery ==
    /\ sub # None
    /\ sel' = SelectFrom(as_strSubquery(sub.value))
    /\ UNCHANGED <<stack, upd, sub, uni, ins, out, lock, bld, qry>>

\* sel.join(&sub, p)
SJoinSubquery ==
    /\ sub # None
    /\ LET s == join(sel, as_strSubquery(sub.value), tOn)
       IN Small(s) /\ sel' = s
    /\ UNCHANGED <<stack, upd, sub, uni, ins, out, lock, bld, qry>>

\* sel.columns(&sub)
SColumnsSubquery ==
    /\ sub # None
    /\ LET s == columns(sel, PushSubquery(sub.value))
       IN Small(s) /\ sel' = s
    /\ UNCHANGED <<stack, upd, sub, uni, ins, out, lock, bld, qry>>

\* upd.from(&sub)
SUpdateFromSubquery ==
    /\ sub # None
    /\ upd' = UpdateFrom(upd, as_strSubquery(sub.value))
    /\ UNCHANGED <<stack, sel, sub, uni, ins, out, lock, bld, qry>>

NextSubquery ==
    \/ SFrom \/ DoLimit
    \/ SAsSubquery \/ SWithAlias
    \/ SFromSubquery \/ SJoinSubquery \/ SColumnsSubquery \/ SUpdateFromSubquery

SpecSubquery == Init /\ [][NextSubquery]_vars

(***************************************************************************)
(* Properties of Select::from and of Subquery (workload 5).                *)
(***************************************************************************)
\* the statement a fresh Select is to be, field by field
Fresh(t) ==
    [select_type |-> [tag |-> "All", columns |-> <<>>],
     distinct |-> [tag |-> "Empty", columns |-> <<>>],
     from |-> t,
     joins |-> <<>>,
     group_by |-> <<>>,
     order_by |-> <<>>,
     where_cl |-> <<>>,
     having |-> <<>>,
     limit |-> [tag |-> "Empty", value |-> <<>>],
     offset |-> [tag |-> "Empty", value |-> <<>>],
     for_cl |-> [tag |-> "Empty"]]

SelectStarFrom == <<"S", "E", "L", "E", "C", "T", " ", "*", " ", "F", "R", "O", "M", " ">>

\* the targets a caller can pass to Select::from in the current state
FromTargets == Tables \cup (IF sub = None THEN {} ELSE {as_strSubquery(sub.value)})

C11_Created ==
    \A t \in FromTargets :
        /\ SelectFrom(t) = Fresh(t)
        /\ SelectToSql(SelectFrom(t)) = SelectStarFrom \o t

\* a step that changes the from target is a call of Select::from
C11_FromStep ==
    sel'.from # sel.from =>
        /\ sel' = Fresh(sel'.from)
        /\ SelectToSql(sel') = SelectStarFrom \o sel'.from

\* C11: Select::from(t) creates the statement with select list All, every other
\* clause empty and from target t, which renders "SELECT * FROM " + t.
C11_FromCreatesEmpty == []C11_Created /\ [][C11_FromStep]_vars

\* Select::from has been called on a Subquery with an alias
C11_Witness ==
    /\ sub # None
    /\ sub.value.alias # None
    /\ sel = Fresh(sub.value.query)

\* as_subquery captures "(" + text + ")", with_alias appends " AS " + alias
C12_Step ==
    /\ (sub = None /\ sub' # None) =>
           sub'.value.query = <<"(">> \o SelectToSql(sel) \o <<")">>
    /\ (sub # None /\ sub' # sub) =>
           /\ sub' # None
           /\ sub'.value.alias # None
           /\ sub'.value.query
                  = sub.value.query \o <<" ", "A", "S", " ">> \o sub'.value.alias.value
    /\ (sub # None /\ sel' # sel) => sub' = sub

\* C12: as_subquery captures "(" + to_sql(statement) + ")" at call time; every
\* with_alias(a) appends " AS " + a and leaves what is already there, and later
\* calls on statements do not reach the captured text.
C12_SubqueryText == [][C12_Step]_vars

\* two aliases on the Subquery of a statement with a LIMIT, and the caller's
\* statement changed since the capture
C12_Witness ==
    /\ sub # None
    /\ sub.value.query
           = <<"(", "S", "E", "L", "E", "C", "T", " ", "*", " ", "F", "R", "O", "M", " ",
               "u", " ", "L", "I", "M", "I", "T", " ", "5", ")",
               " ", "A", "S", " ", "a", " ", "A", "S", " ", "b">>
    /\ sel.from = tT

\* C13: a Subquery is accepted as from target, join target, column and UPDATE
\* FROM target, and the parent's text holds the Subquery's text verbatim there.
C13_SubqueryVerbatim ==
    /\ SelectToSql(SelectFrom(as_strSubquery(
                       with_alias(as_subquery(SelectFrom(tT)), tA))))
           = <<"S", "E", "L", "E", "C", "T", " ", "*", " ", "F", "R", "O", "M", " ",
               "(", "S", "E", "L", "E", "C", "T", " ", "*", " ", "F", "R", "O", "M", " ",
               "t", ")", " ", "A", "S", " ", "a">>
    /\ sub # None =>
           LET q == sub.value.query
           IN /\ SelectToSql(SelectFrom(as_strSubquery(sub.value))) = SelectStarFrom \o q
              /\ SelectToSql(join(SelectFrom(tT), as_strSubquery(sub.value), tOn))
                     = SelectStarFrom \o tT
                           \o <<" ", "I", "N", "N", "E", "R", " ", "J", "O", "I", "N", " ">>
                           \o q \o <<" ", "O", "N", " ">> \o tOn
              /\ SelectToSql(columns(SelectFrom(tT), PushSubquery(sub.value)))
                     = <<"S", "E", "L", "E", "C", "T", " ">> \o q
                           \o <<" ", "F", "R", "O", "M", " ">> \o tT
              /\ UpdateToSql(UpdateFrom(upd, as_strSubquery(sub.value)))
                     = UpdateToSql(remove_from(upd)) \o <<" ", "F", "R", "O", "M", " ">> \o q
              \* the statements the caller holds
              /\ sel.from = q =>
                     Occurrences(SelectToSql(sel),
                                 <<" ", "F", "R", "O", "M", " ">> \o q) # {}
              /\ \A i \in 1..Len(sel.joins) :
                     sel.joins[i].target = q =>
                         Occurrences(SelectToSql(sel),
                                     <<" ", "J", "O", "I", "N", " ">> \o q
                                         \o <<" ", "O", "N", " ">>) # {}
              /\ (sel.select_type.tag = "Specific" /\ sel.select_type.columns[1] = q) =>
                     IsPrefix(<<"S", "E", "L", "E", "C", "T", " ">> \o q,
                              SelectToSql(sel))
              /\ (upd.from.tag = "Specified" /\ upd.from.table = q) =>
                     EndsWith(UpdateToSql(upd), <<" ", "F", "R", "O", "M", " ">> \o q)

\* the Subquery is the from target, a join target and the first column of the
\* caller's Select and the FROM of the caller's Update
C13_Witness ==
    /\ sub # None
    /\ sub.value.alias # None
    /\ sel.from = sub.value.query
    /\ sel.joins # <<>> /\ sel.joins[1].target = sub.value.query
    /\ sel.select_type.tag = "Specific"
    /\ sel.select_type.columns[1] = sub.value.query
    /\ upd.from = [tag |-> "Specified", table |-> sub.value.query]

(***************************************************************************)
(* Workload 6: a caller that builds Unions of its Select, by value and by  *)
(* reference, and nests the Union it holds on either side of a new one.    *)
(***************************************************************************)
RECURSIVE UnionNodes(_)
UnionNodes(side) ==
    IF side.tag = "Select" THEN 0
    ELSE 1 + UnionNodes(side.left) + UnionNodes(side.right)

\* a side handed over by value or by reference
Held(hold, side) == IF hold = "reference" THEN Borrow(side) ELSE side

\* Union::new(mode, query, query) and Union::new(mode, &query, &query)
UNew ==
    /\ uni = None
    /\ \E mode \in UnionModes, hl \in Holds, hr \in Holds :
           uni' = Some(UnionNew(mode, SideSelect(hl, sel), SideSelect(hr, sel)))
    /\ UNCHANGED <<stack, sel, upd, sub, ins, out, lock, bld, qry>>

\* Union::new(mode, pre_union, query)
UNestLeft ==
    /\ uni # None
    /\ UnionNodes(uni.value) < MaxUnions
    /\ \E mode \in UnionModes, hl \in Holds, hr \in Holds :
           uni' = Some(UnionNew(mode, Held(hl, uni.value), SideSelect(hr, sel)))
    /\ UNCHANGED <<stack, sel, upd, sub, ins, out, lock, bld, qry>>

\* Union::new(mode, query, pre_union)
UNestRight ==
    /\ uni # None
    /\ UnionNodes(uni.value) < MaxUnions
    /\ \E mode \in UnionModes, hl \in Holds, hr \in Holds :
           uni' = Some(UnionNew(mode, SideSelect(hl, sel), Held(hr, uni.value)))
    /\ UNCHANGED <<stack, sel, upd, sub, ins, out, lock, bld, qry>>

NextUnion == SFrom \/ UNew \/ UNestLeft \/ UNestRight

SpecUnion == Init /\ [][NextUnion]_vars

(***************************************************************************)
(* Properties of Union.                                                    *)
(***************************************************************************)
\* the text of a side, by the renderer of its own type
SideText(side) ==
    IF side.tag = "Select" THEN SelectToSql(side.query) ELSE UnionToSql(side)

\* every Union in a Union value, the value itself included
RECURSIVE UnionsOf(_)
UnionsOf(side) ==
    IF side.tag = "Select" THEN {}
    ELSE {side} \cup UnionsOf(side.left) \cup UnionsOf(side.right)

\* C14: Union::to_sql is to_sql(left) + " UNION " + to_sql(right) for mode
\* Simple and to_sql(left) + " UNION ALL " + to_sql(right) for mode All, with
\* the sides held by value or by reference.
C14_UnionText ==
    uni # None =>
        \A u \in UnionsOf(uni.value) :
            /\ u.mode = "Simple" =>
                   UnionToSql(u) = SideText(u.left) \o <<" ", "U", "N", "I", "O", "N", " ">>
                                       \o SideText(u.right)
            /\ u.mode = "All" =>
                   UnionToSql(u) = SideText(u.left)
                                       \o <<" ", "U", "N", "I", "O", "N", " ", "A", "L", "L", " ">>
                                       \o SideText(u.right)
            /\ \A hl \in Holds, hr \in Holds :
                   UnionToSql([u EXCEPT !.left.hold = hl, !.right.hold = hr]) = UnionToSql(u)

\* a UNION ALL of one side by value and one by reference
C14_Witness ==
    /\ uni # None
    /\ uni.value.mode = "All"
    /\ uni.value.left = SideSelect("value", SelectFrom(tT))
    /\ uni.value.right = SideSelect("reference", SelectFrom(tT))
    /\ UnionToSql(uni.value)
           = <<"S", "E", "L", "E", "C", "T", " ", "*", " ", "F", "R", "O", "M", " ", "t",
               " ", "U", "N", "I", "O", "N", " ", "A", "L", "L", " ",
               "S", "E", "L", "E", "C", "T", " ", "*", " ", "F", "R", "O", "M", " ", "t">>

\* the Selects of a Union value from left to right, and the separators between
\* them
RECURSIVE LeavesOf(_)
LeavesOf(side) ==
    IF side.tag = "Select" THEN <<side.query>>
    ELSE LeavesOf(side.left) \o LeavesOf(side.right)

RECURSIVE SeparatorsOf(_)
SeparatorsOf(side) ==
    IF side.tag = "Select" THEN <<>>
    ELSE SeparatorsOf(side.left)
             \o <<IF side.mode = "All"
                  THEN <<" ", "U", "N", "I", "O", "N", " ", "A", "L", "L", " ">>
                  ELSE <<" ", "U", "N", "I", "O", "N", " ">> >>
             \o SeparatorsOf(side.right)

RECURSIVE Interleave(_, _)
Interleave(leaves, seps) ==
    IF seps = <<>> THEN SelectToSql(leaves[1])
    ELSE SelectToSql(leaves[1]) \o seps[1] \o Interleave(Tail(leaves), Tail(seps))

\* C15: a Union that is a side of a Union is embedded unchanged and without
\* parentheses, so the text is the Selects from left to right with the
\* separators between them, and it has one "UNION" for each Union node.
C15_NestedFlat ==
    /\ UnionToSql(UnionNew("All",
                           UnionNew("Simple", SideSelect("reference", SelectFrom(tT)),
                                    SideSelect("reference", SelectFrom(tU))),
                           SideSelect("reference", SelectFrom(tT))))
           = SelectToSql(SelectFrom(tT)) \o <<" ", "U", "N", "I", "O", "N", " ">>
                 \o SelectToSql(SelectFrom(tU))
                 \o <<" ", "U", "N", "I", "O", "N", " ", "A", "L", "L", " ">>
                 \o SelectToSql(SelectFrom(tT))
    /\ uni # None =>
           LET text == UnionToSql(uni.value)
           IN /\ text = Interleave(LeavesOf(uni.value), SeparatorsOf(uni.value))
              /\ \A i \in 1..Len(text) : text[i] \notin {"(", ")"}
              /\ Cardinality(Occurrences(text, <<"U", "N", "I", "O", "N">>))
                     = UnionNodes(uni.value)
              /\ \A u \in UnionsOf(uni.value) :
                     /\ u.left.tag = "Union" => IsPrefix(UnionToSql(u.left), UnionToSql(u))
                     /\ u.right.tag = "Union" => EndsWith(UnionToSql(u), UnionToSql(u.right))

\* Union(All, Union(Simple, a, b), c) with the inner Union moved in
C15_Witness ==
    /\ uni # None
    /\ uni.value.mode = "All"
    /\ uni.value.left.tag = "Union"
    /\ uni.value.left.hold = "value"
    /\ uni.value.left.mode = "Simple"
    /\ uni.value.right.tag = "Select"
    /\ UnionNodes(uni.value) = 2
    /\ uni.value.right.query # uni.value.left.left.query

(***************************************************************************)
(* Workload 7: a caller that renders the statements it holds with each     *)
(* renderer of the source; out is the text the last call returned.         *)
(***************************************************************************)
IReturningAll ==
    /\ ins.returning # ReturningAll
    /\ ins' = InsertReturningAll(ins)
    /\ UNCHANGED <<stack, sel, upd, sub, uni, out, lock, bld, qry>>

RenderSelect ==
    /\ out' = SelectToSql(sel)
    /\ UNCHANGED <<stack, sel, upd, sub, uni, ins, lock, bld, qry>>

RenderUnion ==
    /\ uni # None
    /\ out' = UnionToSql(uni.value)
    /\ UNCHANGED <<stack, sel, upd, sub, uni, ins, lock, bld, qry>>

RenderInsert ==
    /\ out' = InsertToSql(ins)
    /\ UNCHANGED <<stack, sel, upd, sub, uni, ins, lock, bld, qry>>

RenderUpdate ==
    /\ out' = UpdateToSql(upd)
    /\ UNCHANGED <<stack, sel, upd, sub, uni, ins, lock, bld, qry>>

\* lib.rs: Query { select: .., from: .. }.to_sql()
RenderLibQuery ==
    /\ \E select \in {SelectAll, SelectSpecific(<<tA, tB>>)}, t \in Tables :
           out' = LibQueryToSql(LibQuery(select, t))
    /\ UNCHANGED <<stack, sel, upd, sub, uni, ins, lock, bld, qry>>

\* query.rs: Query::new(t).to_sql()
RenderQuery ==
    /\ \E t \in Tables : out' = QueryToSql(QueryNew(t))
    /\ UNCHANGED <<stack, sel, upd, sub, uni, ins, lock, bld, qry>>

NextRender ==
    \/ SFrom \/ DoLimit \/ UNew \/ IReturningAll
    \/ RenderSelect \/ RenderUnion \/ RenderInsert \/ RenderUpdate
    \/ RenderLibQuery \/ RenderQuery

SpecRender == Init /\ [][NextRender]_vars

\* C17: no renderer of the source ends its text with the terminator ";" when
\* no string the caller passed in holds one.
C17_NoTerminator == out # <<>> => out[Len(out)] # ";"

(***************************************************************************)
(* Workload 8: a caller that sets, extends and removes the select list,    *)
(* DISTINCT, LIMIT, OFFSET and FOR of one statement.                       *)
(***************************************************************************)
NextFields ==
    \/ DoSelectAll \/ DoColumns
    \/ DoDistinct \/ DoDistinctOn \/ DoRemoveDistinct
    \/ DoLimit \/ DoRemoveLimit
    \/ DoOffset \/ DoRemoveOffset
    \/ DoFor \/ DoRemoveFor

SpecFields == Init /\ [][NextFields]_vars

\* the text between "SELECT" and the select list, by the state of distinct
DistinctText(d) ==
    CASE d.tag = "Empty" -> <<>>
      [] d.tag = "Simple" -> <<" ", "D", "I", "S", "T", "I", "N", "C", "T">>
      [] d.tag = "Extended" ->
             <<" ", "D", "I", "S", "T", "I", "N", "C", "T", " ", "O", "N", " ", "(">>
                 \o RefJoined(d.columns, <<",", " ">>) \o <<")">>

\* C18: distinct() yields Simple from every state, distinct_on(x) yields
\* Extended(x) from Empty and Simple and Extended(c followed by x) from
\* Extended(c), remove_distinct() yields Empty; the states render as nothing,
\* " DISTINCT" and " DISTINCT ON (" + columns joined by ", " + ")".
C18_DistinctMachine ==
    /\ sel.distinct.tag \in {"Empty", "Simple", "Extended"}
    /\ distinct(sel).distinct = [tag |-> "Simple", columns |-> <<>>]
    /\ remove_distinct(sel).distinct = [tag |-> "Empty", columns |-> <<>>]
    /\ \A x \in PushArgs :
           distinct_on(sel, x).distinct
               = [tag |-> "Extended",
                  columns |-> (IF sel.distinct.tag = "Extended"
                               THEN sel.distinct.columns ELSE <<>>) \o x.items]
    /\ IsPrefix(<<"S", "E", "L", "E", "C", "T">> \o DistinctText(sel.distinct)
                    \o <<" ">> \o SelectTypeToSql(sel.select_type)
                    \o <<" ", "F", "R", "O", "M", " ">>,
                SelectToSql(sel))

\* DISTINCT ON columns of two calls, in call order
C18_Witness ==
    /\ sel.distinct = [tag |-> "Extended", columns |-> <<tA, tB, tA>>]
    /\ IsPrefix(<<"S", "E", "L", "E", "C", "T", " ", "D", "I", "S", "T", "I", "N", "C", "T",
                  " ", "O", "N", " ", "(", "a", ",", " ", "b", ",", " ", "a", ")", " ", "*">>,
                SelectToSql(sel))

\* C19: columns(x) yields Specific(x) from All and Specific(c followed by x)
\* from Specific(c); select_all() yields All from every state and drops the
\* columns, so the text has "*" for the list and a later columns(y) yields
\* Specific(y).
C19_SelectListMachine ==
    /\ sel.select_type.tag \in {"All", "Specific"}
    /\ select_all(sel).select_type = [tag |-> "All", columns |-> <<>>]
    /\ \A x \in PushArgs :
           /\ columns(sel, x).select_type
                  = [tag |-> "Specific",
                     columns |-> (IF sel.select_type.tag = "Specific"
                                  THEN sel.select_type.columns ELSE <<>>) \o x.items]
           /\ IsPrefix(<<"S", "E", "L", "E", "C", "T">> \o DistinctText(sel.distinct)
                           \o <<" ", "*", " ", "F", "R", "O", "M", " ">>,
                       SelectToSql(select_all(columns(sel, x))))
           /\ \A y \in PushArgs :
                  columns(select_all(columns(sel, x)), y).select_type
                      = [tag |-> "Specific", columns |-> y.items]

\* columns of two calls, in call order
C19_Witness ==
    /\ sel.select_type = [tag |-> "Specific", columns |-> <<tA, tB, tA>>]
    /\ SelectToSql(sel)
           = <<"S", "E", "L", "E", "C", "T", " ", "a", ",", " ", "b", ",", " ", "a",
               " ", "F", "R", "O", "M", " ", "t">>

\* C20: remove_limit, remove_offset, remove_for and remove_distinct empty
\* their field whatever it held and the text then has no such clause; on a
\* statement whose field is Empty, setting and then removing gives the
\* statement back; removing twice is removing once.
C20_Remove ==
    /\ remove_limit(sel).limit = [tag |-> "Empty", value |-> <<>>]
    /\ remove_offset(sel).offset = [tag |-> "Empty", value |-> <<>>]
    /\ remove_for(sel).for_cl = [tag |-> "Empty"]
    /\ remove_distinct(sel).distinct = [tag |-> "Empty", columns |-> <<>>]
    /\ Occurrences(SelectToSql(remove_limit(sel)), <<"L", "I", "M", "I", "T">>) = {}
    /\ Occurrences(SelectToSql(remove_offset(sel)), <<"O", "F", "F", "S", "E", "T">>) = {}
    /\ Occurrences(SelectToSql(remove_for(sel)), <<" ", "F", "O", "R", " ">>) = {}
    /\ Occurrences(SelectToSql(remove_distinct(sel)),
                   <<"D", "I", "S", "T", "I", "N", "C", "T">>) = {}
    /\ sel.limit.tag = "Empty" => \A v \in Values : remove_limit(limit(sel, v)) = sel
    /\ sel.offset.tag = "Empty" => \A v \in Values : remove_offset(offset(sel, v)) = sel
    /\ sel.for_cl.tag = "Empty" => \A f \in Fors : remove_for(for_(sel, f)) = sel
    /\ sel.distinct.tag = "Empty" =>
           /\ remove_distinct(distinct(sel)) = sel
           /\ \A x \in PushArgs : remove_distinct(distinct_on(sel, x)) = sel
    /\ remove_limit(remove_limit(sel)) = remove_limit(sel)
    /\ remove_offset(remove_offset(sel)) = remove_offset(sel)
    /\ remove_for(remove_for(sel)) = remove_for(sel)
    /\ remove_distinct(remove_distinct(sel)) = remove_distinct(sel)

\* a statement with LIMIT, OFFSET and FOR set and DISTINCT Empty
C20_Witness ==
    /\ sel.limit.tag = "Specified"
    /\ sel.offset.tag = "Specified"
    /\ sel.for_cl.tag = "Specified"
    /\ sel.distinct.tag = "Empty"
    /\ Occurrences(SelectToSql(sel), <<"L", "I", "M", "I", "T">>) # {}
    /\ Occurrences(SelectToSql(remove_limit(sel)), <<"O", "F", "F", "S", "E", "T">>) # {}

(***************************************************************************)
(* Workload 9: a caller that builds a For clause and hands it to the       *)
(* Select it holds.                                                        *)
(***************************************************************************)
LUpdate ==
    /\ lock' = Some(For_update)
    /\ UNCHANGED <<stack, sel, upd, sub, uni, ins, out, bld, qry>>

LShare ==
    /\ lock' = Some(For_share)
    /\ UNCHANGED <<stack, sel, upd, sub, uni, ins, out, bld, qry>>

LTable ==
    /\ lock # None
    /\ \E x \in PushArgs :
           /\ Len(lock.value.tables) + Len(x.items) <= MaxSize
           /\ lock' = Some(table(lock.value, x))
    /\ UNCHANGED <<stack, sel, upd, sub, uni, ins, out, bld, qry>>

LNowait ==
    /\ lock # None
    /\ lock' = Some(nowait(lock.value))
    /\ UNCHANGED <<stack, sel, upd, sub, uni, ins, out, bld, qry>>

\* select.for_(lock)
LFor ==
    /\ lock # None
    /\ sel' = for_(sel, lock.value)
    /\ UNCHANGED <<stack, upd, sub, uni, ins, out, lock, bld, qry>>

NextFor == LUpdate \/ LShare \/ LTable \/ LNowait \/ LFor \/ DoRemoveFor

SpecFor == Init /\ [][NextFor]_vars

\* the text of a For clause, written out from its three parts
ForText(f) ==
    <<"F", "O", "R", " ">>
        \o (IF f.mode = "Update" THEN <<"U", "P", "D", "A", "T", "E">>
            ELSE <<"S", "H", "A", "R", "E">>)
        \o (IF f.tables # <<>>
            THEN <<" ", "O", "F", " ">> \o RefJoined(f.tables, <<",", " ">>)
            ELSE <<>>)
        \o (IF f.nowait THEN <<" ", "N", "O", "W", "A", "I", "T">> ELSE <<>>)

\* C21: For::update() and For::share() start with their mode, no tables and
\* nowait false; table(x) appends x in call order, nowait() sets the flag and
\* is idempotent, neither changes the mode; the text is "FOR " + mode, then
\* " OF " + tables joined by ", " when there are tables, then " NOWAIT" when
\* the flag is set.
C21_ForClause ==
    /\ For_update = [mode |-> "Update", tables |-> <<>>, nowait |-> FALSE]
    /\ For_share = [mode |-> "Share", tables |-> <<>>, nowait |-> FALSE]
    /\ lock # None =>
           LET f == lock.value
           IN /\ \A x \in PushArgs :
                     table(f, x) = [mode |-> f.mode,
                                    tables |-> f.tables \o x.items,
                                    nowait |-> f.nowait]
              /\ nowait(f) = [mode |-> f.mode, tables |-> f.tables, nowait |-> TRUE]
              /\ nowait(nowait(f)) = nowait(f)
              /\ ForToSql(f) = ForText(f)
    /\ sel.for_cl.tag = "Specified" =>
           EndsWith(SelectToSql(sel), <<" ">> \o ForText(sel.for_cl.for_clause))

\* FOR SHARE with tables of two calls and NOWAIT, attached to the Select
C21_Witness ==
    /\ lock = Some([mode |-> "Share", tables |-> <<tA, tB, tA>>, nowait |-> TRUE])
    /\ sel.for_cl = ForSpecified(lock.value)
    /\ ForToSql(lock.value)
           = <<"F", "O", "R", " ", "S", "H", "A", "R", "E", " ", "O", "F", " ",
               "a", ",", " ", "b", ",", " ", "a", " ", "N", "O", "W", "A", "I", "T">>

(***************************************************************************)
(* Workload 10: a caller that builds an Insert.                            *)
(***************************************************************************)
\* rows and queries the caller passes to values() and query()
Rows == {<<t1>>, <<tA, tB>>}

Queries == {SelectFrom(tT), limit(SelectFrom(tU), t5)}

InsertSize(i) ==
    Len(i.columns)
    + (IF i.values.tag = "Specified" THEN Len(i.values.rows) ELSE 0)
    + Len(i.returning.values)

IColumns ==
    \E x \in PushArgs :
        LET i == InsertColumns(ins, x)
        IN /\ InsertSize(i) <= MaxSize
           /\ ins' = i
           /\ UNCHANGED <<stack, sel, upd, sub, uni, out, lock, bld, qry>>

IValues ==
    \E row \in Rows :
        LET i == InsertValues(ins, row)
        IN /\ InsertSize(i) <= MaxSize
           /\ ins' = i
           /\ UNCHANGED <<stack, sel, upd, sub, uni, out, lock, bld, qry>>

IQuery ==
    \E q \in Queries :
        /\ ins' = InsertQuery(ins, q)
        /\ UNCHANGED <<stack, sel, upd, sub, uni, out, lock, bld, qry>>

IReturning ==
    \E x \in PushArgs :
        LET i == InsertReturning(ins, x)
        IN /\ InsertSize(i) <= MaxSize
           /\ ins' = i
           /\ UNCHANGED <<stack, sel, upd, sub, uni, out, lock, bld, qry>>

IRemoveReturning ==
    /\ ins' = remove_returning(ins)
    /\ UNCHANGED <<stack, sel, upd, sub, uni, out, lock, bld, qry>>

NextInsert ==
    IColumns \/ IValues \/ IQuery \/ IReturningAll \/ IReturning \/ IRemoveReturning

SpecInsert == Init /\ [][NextInsert]_vars

\* the RETURNING clause by the state of the returning field
ReturningText(r) ==
    CASE r.tag = "Empty" -> <<>>
      [] r.tag = "All" -> <<" ", "R", "E", "T", "U", "R", "N", "I", "N", "G", " ", "*">>
      [] r.tag = "Specified" ->
             <<" ", "R", "E", "T", "U", "R", "N", "I", "N", "G", " ">>
                 \o RefJoined(r.values, <<",", " ">>)

\* the values text by the source of the values
ValuesText(v) ==
    CASE v.tag = "Default" ->
             <<"D", "E", "F", "A", "U", "L", "T", " ", "V", "A", "L", "U", "E", "S">>
      [] v.tag = "Specified" ->
             <<"V", "A", "L", "U", "E", "S", " ">>
                 \o RefJoined([k \in 1..Len(v.rows) |->
                                   <<"(">> \o RefJoined(v.rows[k], <<",", " ">>) \o <<")">>],
                              <<",", " ">>)
      [] v.tag = "Select" -> SelectToSql(v.query)

InsertText(i) ==
    <<"I", "N", "S", "E", "R", "T", " ", "I", "N", "T", "O", " ">> \o i.table
        \o (IF i.columns # <<>>
            THEN <<" ", "(">> \o RefJoined(i.columns, <<",", " ">>) \o <<")">>
            ELSE <<>>)
        \o <<" ">> \o ValuesText(i.values)
        \o ReturningText(i.returning)

\* C22: Insert::to_sql is "INSERT INTO " + table, " (" + columns + ")" when
\* there are columns, " " + values text, then RETURNING, whatever the order
\* of the builder calls; the values text is "DEFAULT VALUES", "VALUES " +
\* one "(..)" group per row in call order, or the Select's text.
C22_InsertText ==
    /\ InsertToSql(ins) = InsertText(ins)
    /\ InsertToSql(InsertInto(tT)) = InsertText([table |-> tT, columns |-> <<>>,
                                                 values |-> [tag |-> "Default"],
                                                 returning |-> [tag |-> "Empty",
                                                                values |-> <<>>]])
    /\ \A x \in PushArgs, y \in PushArgs :
           InsertToSql(InsertReturning(InsertColumns(ins, x), y))
               = InsertToSql(InsertColumns(InsertReturning(ins, y), x))
    /\ \A x \in PushArgs, row \in Rows :
           InsertToSql(InsertValues(InsertColumns(ins, x), row))
               = InsertToSql(InsertColumns(InsertValues(ins, row), x))
    /\ \A y \in PushArgs, q \in Queries :
           InsertToSql(InsertQuery(InsertReturning(ins, y), q))
               = InsertToSql(InsertReturning(InsertQuery(ins, q), y))

\* columns, two rows and RETURNING * on one Insert
C22_Witness ==
    /\ ins.columns = <<tA>>
    /\ ins.values = ValuesSpecified(<<(<<tA, tB>>), (<<t1>>)>>)
    /\ ins.returning = ReturningAll
    /\ InsertToSql(ins)
           = <<"I", "N", "S", "E", "R", "T", " ", "I", "N", "T", "O", " ", "t", " ",
               "(", "a", ")", " ", "V", "A", "L", "U", "E", "S", " ",
               "(", "a", ",", " ", "b", ")", ",", " ", "(", "1", ")",
               " ", "R", "E", "T", "U", "R", "N", "I", "N", "G", " ", "*">>

(***************************************************************************)
(* Workload 11: a caller that builds an Update.                            *)
(***************************************************************************)
\* expressions the caller passes to set()
SetArgs == {PushStr(tSet), PushArray(<<>>), PushArray(<<tB, tSet>>)}

USetMore ==
    \E x \in SetArgs :
        /\ Len(upd.expressions) + Len(x.items) <= MaxLen
        /\ upd' = UpdateSet(upd, x)
        /\ UNCHANGED <<stack, sel, sub, uni, ins, out, lock, bld, qry>>

UFrom ==
    \E t \in Tables :
        /\ upd' = UpdateFrom(upd, t)
        /\ UNCHANGED <<stack, sel, sub, uni, ins, out, lock, bld, qry>>

URemoveFrom ==
    /\ upd' = remove_from(upd)
    /\ UNCHANGED <<stack, sel, sub, uni, ins, out, lock, bld, qry>>

UReturningAll ==
    /\ upd' = returning_all(upd)
    /\ UNCHANGED <<stack, sel, sub, uni, ins, out, lock, bld, qry>>

UReturning ==
    \E x \in PushArgs :
        /\ Len(upd.returning.values) + Len(x.items) <= MaxLen
        /\ upd' = returning(upd, x)
        /\ UNCHANGED <<stack, sel, sub, uni, ins, out, lock, bld, qry>>

UEmptyReturning ==
    /\ upd' = empty_returning(upd)
    /\ UNCHANGED <<stack, sel, sub, uni, ins, out, lock, bld, qry>>

NextUpdate ==
    \/ USetMore \/ UFrom \/ URemoveFrom \/ UFilter
    \/ UReturningAll \/ UReturning \/ UEmptyReturning

SpecUpdate == Init /\ [][NextUpdate]_vars

UpdateText(u) ==
    <<"U", "P", "D", "A", "T", "E", " ">> \o u.table \o <<" ", "S", "E", "T", " ">>
        \o RefJoined(u.expressions, <<",", " ">>)
        \o (IF u.from.tag = "Specified"
            THEN <<" ", "F", "R", "O", "M", " ">> \o u.from.table ELSE <<>>)
        \o ListText(<<" ", "W", "H", "E", "R", "E", " ">>, u.where_cl)
        \o ReturningText(u.returning)

\* C23: Update::to_sql is "UPDATE " + table + " SET " + expressions, " FROM "
\* + target when from is Specified, " WHERE " + conditions joined by " AND "
\* when there are conditions, then RETURNING, whatever the order of the
\* builder calls; set appends in call order, the last from wins and
\* remove_from empties the target.
C23_UpdateText ==
    /\ UpdateToSql(upd) = UpdateText(upd)
    /\ \A x \in SetArgs :
           UpdateSet(upd, x) = [upd EXCEPT !.expressions = upd.expressions \o x.items]
    /\ \A t1st \in Tables, t2nd \in Tables :
           /\ UpdateFrom(upd, t2nd) = [upd EXCEPT !.from = [tag |-> "Specified",
                                                            table |-> t2nd]]
           /\ UpdateFrom(UpdateFrom(upd, t1st), t2nd) = UpdateFrom(upd, t2nd)
    /\ remove_from(upd) = [upd EXCEPT !.from = [tag |-> "Empty", table |-> <<>>]]
    /\ \A x \in SetArgs, t \in Tables, c \in Conds :
           LET abc == UpdateFilter(UpdateFrom(UpdateSet(upd, x), t), c)
               cba == UpdateSet(UpdateFrom(UpdateFilter(upd, c), t), x)
               bca == UpdateSet(UpdateFilter(UpdateFrom(upd, t), c), x)
           IN /\ UpdateToSql(abc) = UpdateToSql(cba)
              /\ UpdateToSql(abc) = UpdateToSql(bca)
              /\ UpdateToSql(returning_all(abc)) = UpdateToSql(UpdateSet(
                     UpdateFrom(UpdateFilter(returning_all(upd), c), t), x))

\* expressions of two calls, a FROM target, two conditions and RETURNING
C23_Witness ==
    /\ upd.expressions = <<tSet, tSet>>
    /\ upd.from = FromSpecified(tU)
    /\ Len(upd.where_cl) = 2
    /\ upd.returning.tag = "Specified"
    /\ Len(upd.returning.values) = 2
    /\ UpdateToSql(upd) = UpdateText(upd)

\* C28: SET is written with an empty expression list too: the text is then
\* "UPDATE " + table + " SET " followed by the later clauses, so it ends in a
\* space when there is none and has two spaces before FROM or WHERE.
C28_SetUnconditional ==
    upd.expressions = <<>> =>
        LET text == UpdateToSql(upd)
            head == <<"U", "P", "D", "A", "T", "E", " ">> \o upd.table
                        \o <<" ", "S", "E", "T", " ">>
        IN /\ IsPrefix(head, text)
           /\ (upd.from.tag = "Empty" /\ upd.where_cl = <<>> /\ upd.returning.tag = "Empty")
                  => text = head /\ text[Len(text)] = " "
           /\ upd.from.tag = "Specified"
                  => IsPrefix(head \o <<" ", "F", "R", "O", "M", " ">>, text)
           /\ (upd.from.tag = "Empty" /\ upd.where_cl # <<>>)
                  => IsPrefix(head \o <<" ", "W", "H", "E", "R", "E", " ">>, text)
           /\ UpdateToSql(UpdateSet(upd, PushArray(<<>>))) = text

\* no expression set, FROM and WHERE present
C28_Witness ==
    /\ upd.expressions = <<>>
    /\ upd.from = FromSpecified(tT)
    /\ upd.where_cl # <<>>
    /\ Occurrences(UpdateToSql(upd),
                   <<"S", "E", "T", " ", " ", "F", "R", "O", "M">>) # {}

(***************************************************************************)
(* Workload 12: a caller that sets, extends and removes RETURNING on the   *)
(* Insert and the Update it holds.                                         *)
(***************************************************************************)
NextReturning ==
    \/ IValues \/ IReturningAll \/ IReturning \/ IRemoveReturning
    \/ USet \/ UReturningAll \/ UReturning \/ UEmptyReturning

SpecReturning == Init /\ [][NextReturning]_vars

\* the returning field after returning(x) on a statement whose field is r
ReturningAfter(r, x) ==
    [tag |-> "Specified",
     values |-> (IF r.tag = "Specified" THEN r.values ELSE <<>>) \o x.items]

\* C24: in Insert and in Update returning_all() yields All from every state,
\* returning(x) yields Specified(x) from Empty and All and Specified(c followed
\* by x) from Specified(c), remove_returning()/empty_returning() yields Empty;
\* the states render as nothing, " RETURNING *" and " RETURNING " + columns
\* joined by ", ", as the last clause.
C24_ReturningMachine ==
    /\ ins.returning.tag \in {"Empty", "All", "Specified"}
    /\ upd.returning.tag \in {"Empty", "All", "Specified"}
    /\ InsertReturningAll(ins).returning = [tag |-> "All", values |-> <<>>]
    /\ returning_all(upd).returning = [tag |-> "All", values |-> <<>>]
    /\ remove_returning(ins).returning = [tag |-> "Empty", values |-> <<>>]
    /\ empty_returning(upd).returning = [tag |-> "Empty", values |-> <<>>]
    /\ \A x \in PushArgs :
           /\ InsertReturning(ins, x).returning = ReturningAfter(ins.returning, x)
           /\ returning(upd, x).returning = ReturningAfter(upd.returning, x)
    /\ EndsWith(InsertToSql(ins), ReturningText(ins.returning))
    /\ EndsWith(UpdateToSql(upd), ReturningText(upd.returning))
    /\ Cardinality(Occurrences(InsertToSql(ins),
                               <<"R", "E", "T", "U", "R", "N", "I", "N", "G">>))
           = IF ins.returning.tag = "Empty" THEN 0 ELSE 1
    /\ Cardinality(Occurrences(UpdateToSql(upd),
                               <<"R", "E", "T", "U", "R", "N", "I", "N", "G">>))
           = IF upd.returning.tag = "Empty" THEN 0 ELSE 1

\* RETURNING columns of two calls on the Insert, RETURNING * on the Update
C24_Witness ==
    /\ ins.returning = [tag |-> "Specified", values |-> <<tA, tB, tA>>]
    /\ upd.returning = [tag |-> "All", values |-> <<>>]
    /\ upd.expressions # <<>>
    /\ EndsWith(InsertToSql(ins),
                <<" ", "R", "E", "T", "U", "R", "N", "I", "N", "G", " ",
                  "a", ",", " ", "b", ",", " ", "a">>)
    /\ EndsWith(UpdateToSql(upd),
                <<"1", " ", "R", "E", "T", "U", "R", "N", "I", "N", "G", " ", "*">>)

\* C27: the values of an Insert are one of Default, Specified(rows) and
\* Select(query); query(q) replaces what is stored, values(v) on Default or
\* Select starts the row list [v], values(v) on Specified appends v; the text
\* never has a VALUES list and a SELECT together.
C27_ValuesSource ==
    /\ ins.values.tag \in {"Default", "Specified", "Select"}
    /\ \A q \in Queries :
           InsertQuery(ins, q) = [ins EXCEPT !.values = [tag |-> "Select", query |-> q]]
    /\ \A row \in Rows :
           InsertValues(ins, row).values
               = [tag |-> "Specified",
                  rows |-> (IF ins.values.tag = "Specified" THEN ins.values.rows
                            ELSE <<>>) \o <<row>>]
    /\ LET text == InsertToSql(ins)
           list == Occurrences(text, <<"V", "A", "L", "U", "E", "S", " ", "(">>)
           query == Occurrences(text, <<"S", "E", "L", "E", "C", "T">>)
       IN /\ list = {} \/ query = {}
          /\ list # {} <=> ins.values.tag = "Specified"
          /\ query # {} <=> ins.values.tag = "Select"

\* a stored query with columns and RETURNING around it
C27_Witness ==
    /\ ins.values = [tag |-> "Select", query |-> limit(SelectFrom(tU), t5)]
    /\ ins.columns = <<tB, tA>>
    /\ ins.returning.tag = "Specified"
    /\ Occurrences(InsertToSql(ins), <<"V", "A", "L", "U", "E", "S">>) = {}

(***************************************************************************)
(* Workload 13: a caller that passes strings, arrays and the zero-length   *)
(* array to the list setters of a Select, an Insert and an Update.         *)
(***************************************************************************)
NextLists ==
    \/ DoSelectAll \/ DoColumns
    \/ DoDistinct \/ DoDistinctOn \/ DoRemoveDistinct
    \/ DoGroupBy
    \/ IReturningAll \/ IReturning
    \/ UReturningAll \/ UReturning

SpecLists == Init /\ [][NextLists]_vars

\* &[]
EmptyArray == PushArray(<<>>)

\* C26: a list setter that switches the variant switches it for the
\* zero-length array too: columns(&[]) on All gives Specific of no columns,
\* rendered as the empty string; distinct_on(&[]) on Empty or Simple gives
\* Extended of no columns, rendered "DISTINCT ON ()"; returning(&[]) on Empty
\* or All gives Specified of no columns; group_by(&[]) changes nothing and
\* writes no GROUP BY.
C26_ZeroLengthArray ==
    /\ sel.select_type.tag = "All" =>
           /\ columns(sel, EmptyArray).select_type = [tag |-> "Specific", columns |-> <<>>]
           /\ IsPrefix(<<"S", "E", "L", "E", "C", "T">> \o DistinctText(sel.distinct)
                           \o <<" ", " ", "F", "R", "O", "M", " ">>,
                       SelectToSql(columns(sel, EmptyArray)))
    /\ sel.distinct.tag \in {"Empty", "Simple"} =>
           /\ distinct_on(sel, EmptyArray).distinct = [tag |-> "Extended", columns |-> <<>>]
           /\ IsPrefix(<<"S", "E", "L", "E", "C", "T", " ", "D", "I", "S", "T", "I", "N", "C", "T",
                         " ", "O", "N", " ", "(", ")", " ">>,
                       SelectToSql(distinct_on(sel, EmptyArray)))
    /\ upd.returning.tag \in {"Empty", "All"} =>
           returning(upd, EmptyArray).returning = [tag |-> "Specified", values |-> <<>>]
    /\ ins.returning.tag \in {"Empty", "All"} =>
           InsertReturning(ins, EmptyArray).returning
               = [tag |-> "Specified", values |-> <<>>]
    /\ group_by(sel, EmptyArray) = sel
    /\ sel.group_by = <<>> =>
           Occurrences(SelectToSql(group_by(sel, EmptyArray)),
                       <<"G", "R", "O", "U", "P", " ", "B", "Y">>) = {}

\* the three variants switched with no column in them, and no GROUP BY
C26_Witness ==
    /\ sel.select_type = [tag |-> "Specific", columns |-> <<>>]
    /\ sel.distinct = [tag |-> "Extended", columns |-> <<>>]
    /\ sel.group_by = <<>>
    /\ upd.returning = [tag |-> "Specified", values |-> <<>>]
    /\ ins.returning = [tag |-> "Specified", values |-> <<>>]
    /\ SelectToSql(sel)
           = <<"S", "E", "L", "E", "C", "T", " ", "D", "I", "S", "T", "I", "N", "C", "T",
               " ", "O", "N", " ", "(", ")", " ", " ", "F", "R", "O", "M", " ", "t">>

(***************************************************************************)
(* Workload 14: a caller of the early Builder.                             *)
(***************************************************************************)
\* the slices the caller passes to select() and distinct_on()
FieldLists == {<<>>, <<tA>>, <<tB, tA>>}

BSelectAll ==
    /\ bld' = BuilderSelectAll(bld)
    /\ UNCHANGED <<stack, sel, upd, sub, uni, ins, out, lock, qry>>

BSelect ==
    \E fields \in FieldLists :
        /\ bld' = BuilderSelect(bld, fields)
        /\ UNCHANGED <<stack, sel, upd, sub, uni, ins, out, lock, qry>>

BClearDistinct ==
    /\ bld' = BuilderClearDistinct(bld)
    /\ UNCHANGED <<stack, sel, upd, sub, uni, ins, out, lock, qry>>

BDistinct ==
    /\ bld' = BuilderDistinct(bld)
    /\ UNCHANGED <<stack, sel, upd, sub, uni, ins, out, lock, qry>>

BDistinctOn ==
    \E fields \in FieldLists :
        /\ bld' = BuilderDistinctOn(bld, fields)
        /\ UNCHANGED <<stack, sel, upd, sub, uni, ins, out, lock, qry>>

BJoin ==
    \E target \in Tables :
        /\ Len(bld.joins) < MaxLen
        /\ bld' = BuilderJoin(bld, target, tOn)
        /\ UNCHANGED <<stack, sel, upd, sub, uni, ins, out, lock, qry>>

BBuild ==
    /\ qry' = Some(BuilderBuild(bld))
    /\ UNCHANGED <<stack, sel, upd, sub, uni, ins, out, lock, bld>>

NextBuilder ==
    BSelectAll \/ BSelect \/ BClearDistinct \/ BDistinct \/ BDistinctOn \/ BJoin \/ BBuild

SpecBuilder == Init /\ [][NextBuilder]_vars

C25_Setters ==
    /\ \A f1 \in FieldLists, f2 \in FieldLists :
           /\ BuilderSelect(BuilderSelect(bld, f1), f2).select
                  = [tag |-> "Specific", columns |-> f2]
           /\ BuilderDistinctOn(BuilderDistinctOn(bld, f1), f2).distinct
                  = [tag |-> "Extended", columns |-> f2]
    /\ \A target \in Tables :
           BuilderJoin(bld, target, tOn).joins
               = bld.joins \o <<[join_type |-> "Inner", target |-> target,
                                 clause |-> tOn]>>
    /\ \A f \in DOMAIN bld : BuilderBuild(bld)[f] = bld[f]

\* a step of select() or distinct_on() leaves the list of that call only, a
\* step of join() one more Join at the end, a step of build() the builder as
\* it was and a Query of its fields
C25_Step ==
    /\ (bld'.select # bld.select /\ bld'.select.tag = "Specific") =>
           bld'.select.columns \in FieldLists
    /\ (bld'.distinct # bld.distinct /\ bld'.distinct.tag = "Extended") =>
           bld'.distinct.columns \in FieldLists
    /\ bld'.joins # bld.joins =>
           /\ Len(bld'.joins) = Len(bld.joins) + 1
           /\ SubSeq(bld'.joins, 1, Len(bld.joins)) = bld.joins
    /\ qry' # qry =>
           /\ bld' = bld
           /\ qry' # None
           /\ \A f \in DOMAIN bld : qry'.value[f] = bld[f]

\* C25: in the early Builder select() and distinct_on() replace the list of
\* the call before, join() appends one Join per call in call order, and
\* build() returns a Query of the builder's current fields and leaves the
\* builder as it was.
C25_BuilderReplaces == []C25_Setters /\ [][C25_Step]_vars

\* a Query built before the builder's select list and DISTINCT ON were set
\* again and a second Join was added
C25_Witness ==
    /\ qry # None
    /\ qry.value.select = [tag |-> "Specific", columns |-> <<tB, tA>>]
    /\ qry.value.distinct = [tag |-> "Extended", columns |-> <<tB, tA>>]
    /\ Len(qry.value.joins) = 1
    /\ bld.select = [tag |-> "Specific", columns |-> <<tA>>]
    /\ bld.distinct = [tag |-> "Extended", columns |-> <<tA>>]
    /\ Len(bld.joins) = 2
    /\ bld.joins[1] = qry.value.joins[1]
    /\ bld.joins[1].target # bld.joins[2].target

(***************************************************************************)
(* Parentheses of WHERE trees (workload 2).                                *)
(***************************************************************************)
\* the group nodes of a tree, the tree's own node included
RECURSIVE GroupCount(_)
GroupCount(w) ==
    LET n[i \in 0..Len(w.clauses)] ==
            IF i = 0 THEN 1
            ELSE n[i - 1] + (IF w.clauses[i].tag = "Extended"
                             THEN GroupCount(w.clauses[i].where) ELSE 0)
    IN n[Len(w.clauses)]

\* the depth of a tree: 1 for a group without groups in it
RECURSIVE TreeDepth(_)
TreeDepth(w) ==
    LET m[i \in 0..Len(w.clauses)] ==
            IF i = 0 THEN 0
            ELSE IF w.clauses[i].tag = "Extended"
                    /\ TreeDepth(w.clauses[i].where) > m[i - 1]
                 THEN TreeDepth(w.clauses[i].where)
                 ELSE m[i - 1]
    IN 1 + m[Len(w.clauses)]

\* how many parentheses are open after each character of a text
OpenAfter(text) ==
    LET d[i \in 0..Len(text)] ==
            IF i = 0 THEN 0
            ELSE d[i - 1] + (CASE text[i] = "(" -> 1
                               [] text[i] = ")" -> -1
                               [] OTHER -> 0)
    IN d

CountOf(text, ch) == Cardinality({i \in 1..Len(text) : text[i] = ch})

tAorB == <<"a", " ", "O", "R", " ", "b">>

\* C29: the text of a Where tree whose raw strings have no parentheses is
\* balanced, has as many "(" and as many ")" as the tree has groups and
\* nests as deep as the tree; a raw string is never wrapped, so
\* filter("a OR b").filter("c") renders "a OR b AND c".
C29_Parentheses ==
    /\ \A k \in 1..Len(stack) :
           LET w == stack[k]
               text == WhereToSql(w)
               open == OpenAfter(text)
           IN /\ \A i \in 0..Len(text) : open[i] >= 0
              /\ open[Len(text)] = 0
              /\ CountOf(text, "(") = GroupCount(w)
              /\ CountOf(text, ")") = GroupCount(w)
              /\ \A i \in 0..Len(text) : open[i] <= TreeDepth(w)
              /\ \E i \in 0..Len(text) : open[i] = TreeDepth(w)
    /\ \A t \in Preds : WhereTypeToSql(IntoWhereTypeStr(t)) = t
    /\ SelectToSql(filter(filter(SelectFrom(tT), IntoWhereTypeStr(tAorB)),
                          IntoWhereTypeStr(tR)))
           = <<"S", "E", "L", "E", "C", "T", " ", "*", " ", "F", "R", "O", "M", " ", "t",
               " ", "W", "H", "E", "R", "E", " ", "a", " ", "O", "R", " ", "b",
               " ", "A", "N", "D", " ", "c", " ", ">", " ", "4">>

\* a tree three groups deep with a raw string beside the nested group
C29_Witness ==
    /\ Len(stack) = 1
    /\ TreeDepth(stack[1]) = 3
    /\ GroupCount(stack[1]) = 3
    /\ Len(stack[1].clauses) = 2
    /\ stack[1].clauses[1].tag = "Simple"
    /\ CountOf(WhereToSql(stack[1]), "(") = 3

(***************************************************************************)
(* Grouping of nested Unions (workload 6).                                 *)
(***************************************************************************)
\* Union(m2, Union(m1, a, b), c) regrouped as Union(m1, a, Union(m2, b, c))
RotateRight(u) ==
    UnionNew(u.left.mode, u.left.left, UnionNew(u.mode, u.left.right, u.right))

\* Union(m1, a, Union(m2, b, c)) regrouped as Union(m2, Union(m1, a, b), c)
RotateLeft(u) ==
    UnionNew(u.right.mode, UnionNew(u.mode, u.left, u.right.left), u.right.right)

\* C30: Union(m2, Union(m1, a, b), c) and Union(m1, a, Union(m2, b, c)) render
\* the same text for all sides and modes.
C30_Associative ==
    /\ uni # None =>
           \A u \in UnionsOf(uni.value) :
               /\ u.left.tag = "Union" =>
                      /\ RotateRight(u) # u
                      /\ UnionToSql(RotateRight(u)) = UnionToSql(u)
               /\ u.right.tag = "Union" =>
                      /\ RotateLeft(u) # u
                      /\ UnionToSql(RotateLeft(u)) = UnionToSql(u)
    /\ \A m1 \in UnionModes, m2 \in UnionModes, t \in Tables :
           LET a == SideSelect("value", sel)
               b == SideSelect("reference", SelectFrom(t))
               c == IF uni = None THEN a ELSE uni.value
           IN UnionToSql(UnionNew(m2, UnionNew(m1, a, b), c))
                  = UnionToSql(UnionNew(m1, a, UnionNew(m2, b, c)))

\* Union(Simple, Union(All, a, b), c) with a and c over different tables
C30_Witness ==
    /\ uni # None
    /\ uni.value.mode = "Simple"
    /\ uni.value.left.tag = "Union"
    /\ uni.value.left.mode = "All"
    /\ uni.value.right.tag = "Select"
    /\ uni.value.left.left.query.from = tT
    /\ uni.value.right.query.from = tU
    /\ UnionToSql(RotateRight(uni.value)) = UnionToSql(uni.value)

====
